---------------------------- MODULE Spec2Model ----------------------------
(***************************************************************************)
(* Secret sharing core of tno.mpc.secret_sharing: the additive             *)
(* (n-out-of-n) and Shamir (t-out-of-n) schemes, the shared-value handle   *)
(* (SecureNumber) and the multiplicative resharing protocol.               *)
(*                                                                         *)
(* Python lists are modelled as sequences: Python's shares[i] is           *)
(* shares[i + 1] here.  Python's % and // are TLC's % and \div (floor).    *)
(***************************************************************************)
EXTENDS Integers, Sequences, FiniteSets, TLC

VARIABLES
    scheme,     \* the scheme instance: kind, n, threshold, modulus
    local,      \* pool.name of the party holding the handle below
    secret,     \* the raw secret handed to _share_secret
    shares,     \* SecureNumber._shares of the handle (<<>> before share())
    outcome,    \* what the last reconstruct returned or raised
    inputs,     \* the inputs of a protocol run: plain values, the function computed
    procs,      \* the coroutines of the parties: position, handles held, results
    pool        \* the messages sent and not yet received

sharingVars == <<scheme, local, secret, shares, outcome>>

protocolVars == <<inputs, procs, pool>>

vars == <<scheme, local, secret, shares, outcome, inputs, procs, pool>>

(***************************************************************************)
(* Bounds of the model.                                                    *)
(***************************************************************************)
MaxN == 3
MaxMod == 5

(***************************************************************************)
(* Generic helpers.                                                        *)
(***************************************************************************)
RECURSIVE SumSeq(_)
SumSeq(s) == IF s = <<>> THEN 0 ELSE Head(s) + SumSeq(Tail(s))

RECURSIVE SetToSeq(_)
SetToSeq(S) ==
    IF S = {} THEN <<>>
    ELSE LET e == CHOOSE e \in S : TRUE IN <<e>> \o SetToSeq(S \ {e})

RECURSIVE Power(_, _)
Power(b, e) == IF e = 0 THEN 1 ELSE b * Power(b, e - 1)

\* The values a result record can carry: a returned value or a raised error.
Returned(v) == [kind |-> "value", val |-> v, err |-> ""]
Raised(e) == [kind |-> "error", val |-> 0, err |-> e]
NoOutcome == [kind |-> "none", val |-> 0, err |-> ""]

\* An optional set of party names: None, or a named set.
None == [named |-> FALSE, parties |-> {}]
Named(S) == [named |-> TRUE, parties |-> S]

(***************************************************************************)
(* Parties.  The pool of party i is named "local<i>"; its clients are the  *)
(* other n - 1 names.  sorted() orders these names by their digit.         *)
(***************************************************************************)
PartyName(i) == "local" \o ToString(i)

PoolNames(n) == {PartyName(i) : i \in 0 .. n - 1}

PoolClients(n, name) == PoolNames(n) \ {name}

NameRank(name) == CHOOSE i \in 0 .. 9 : PartyName(i) = name

RECURSIVE Sorted(_)
Sorted(S) ==
    IF S = {} THEN <<>>
    ELSE LET least == CHOOSE a \in S : \A b \in S : NameRank(a) <= NameRank(b)
         IN <<least>> \o Sorted(S \ {least})

all_party_names(n, name) == Sorted({name} \cup PoolClients(n, name))

mapping(n, name) ==
    LET names == all_party_names(n, name)
    IN [p \in PoolNames(n) |-> (CHOOSE i \in 1 .. Len(names) : names[i] = p) - 1]

(***************************************************************************)
(* Construction.                                                           *)
(***************************************************************************)
\* A default threshold of half the parties, rounded up.
DefaultThresholdHalf(n, thr) ==
    LET given == IF thr = {} THEN 0 ELSE CHOOSE k \in thr : TRUE
    IN IF given = 0 THEN (n + 1) \div 2 ELSE given


\* threshold = threshold or 1 + n // 2; thr is {} for None, {k} for k.
DefaultThreshold(n, thr) ==
    LET given == IF thr = {} THEN 0 ELSE CHOOSE k \in thr : TRUE
    IN IF given = 0 THEN 1 + (n \div 2) ELSE given

ShamirSecretSharingScheme(n, modulus, thr) ==
    [kind |-> "shamir", n |-> n, modulus |-> modulus,
     threshold |-> DefaultThreshold(n, thr)]

AdditiveSecretSharingScheme(n, modulus) ==
    [kind |-> "additive", n |-> n, modulus |-> modulus, threshold |-> 0]

max_value(sch) == sch.modulus \div 2

min_value(sch) == ((-sch.modulus) \div 2) + 1

(***************************************************************************)
(* Encoding.                                                               *)
(***************************************************************************)
encode(sch, value) ==
    IF ~(min_value(sch) <= value /\ value <= max_value(sch))
    THEN Raised("ValueError: outside supported range")
    ELSE Returned(value % sch.modulus)

\* A decoding that maps max_value itself to the negative range.
decode_below(sch, encoded_value) ==
    IF encoded_value < max_value(sch)
    THEN encoded_value
    ELSE encoded_value - sch.modulus

decode(sch, encoded_value) ==
    IF encoded_value <= max_value(sch)
    THEN encoded_value
    ELSE encoded_value - sch.modulus

(***************************************************************************)
(* Shamir: polynomial, shares, weights.                                    *)
(***************************************************************************)
RECURSIVE _prod(_)
_prod(s) == IF s = <<>> THEN 1 ELSE Head(s) * _prod(Tail(s))

\* The integers j - i for j in `indices` (a sequence), j # i.
Differences(indices, i) ==
    LET others == SelectSeq(indices, LAMBDA j : j # i)
    IN [k \in 1 .. Len(others) |-> others[k] - i]

IndexRange(n) == [k \in 1 .. n |-> k - 1]

\* functools.cached_property: the attribute that an earlier access has stored
\* in the instance, or the value that the decorated function computes.
cached_property(sch, attribute, computed) ==
    IF attribute \in DOMAIN sch THEN sch[attribute] ELSE computed

\* The instance after an access of a cached_property: what the function
\* computed is stored under the name of the attribute.
Accessed(sch, attribute, computed) ==
    IF attribute \in DOMAIN sch THEN sch
    ELSE [a \in DOMAIN sch \cup {attribute} |->
            IF a = attribute THEN computed ELSE sch[a]]

weights(sch) ==
    cached_property(sch, "weights",
        LET n_factorial == _prod([k \in 1 .. sch.n |-> k])
        IN [i \in 0 .. sch.n - 1 |->
                n_factorial
                    \div ((i + 1) * _prod(Differences(IndexRange(sch.n), i)))])

\* A polynomial that leaves out the term of the highest coefficient.
_generate_polynomial_short(sch, coefficients, x) ==
    SumSeq([k \in 1 .. sch.threshold - 1 |-> coefficients[k] * Power(x, k - 1)])
        % sch.modulus

\* lambda x: sum(coefficients[i] * x**i for i in range(threshold)) % modulus
_generate_polynomial(sch, coefficients, x) ==
    SumSeq([k \in 1 .. sch.threshold |-> coefficients[k] * Power(x, k - 1)])
        % sch.modulus

\* The draws of secrets.randbelow(modulus) for i in range(1, threshold).
ShamirRandomness(sch) == [1 .. sch.threshold - 1 -> 0 .. sch.modulus - 1]

\* A sharing that evaluates the polynomial at x = i instead of x = i + 1.
Shamir_share_secret_at_index(sch, raw, rnd) ==
    LET coefficients == <<raw>> \o rnd
    IN [k \in 1 .. sch.n |-> _generate_polynomial(sch, coefficients, k - 1)]

Shamir_share_secret(sch, raw, rnd) ==
    LET coefficients == <<raw>> \o rnd
    IN [k \in 1 .. sch.n |-> _generate_polynomial(sch, coefficients, k)]

(***************************************************************************)
(* mod_inv of tno.mpc.encryption_schemes.utils: the inverse of value       *)
(* modulo modulus, an error when there is none.                            *)
(***************************************************************************)
\* An inverse that is only found for a positive value.
HasModInvPositive(value, modulus) ==
    /\ value > 0
    /\ \E v \in 0 .. modulus - 1 : (value * v) % modulus = 1 % modulus

HasModInv(value, modulus) ==
    \E v \in 0 .. modulus - 1 : (value * v) % modulus = 1 % modulus

mod_inv(value, modulus) ==
    CHOOSE v \in 0 .. modulus - 1 : (value * v) % modulus = 1 % modulus

(***************************************************************************)
(* Shamir reconstruction.                                                  *)
(***************************************************************************)
\* [self.mapping[party] for party in other_parties.union({self.pool.name})]
Contributors(sch, name, other_parties) ==
    LET m == cached_property(sch, "mapping", mapping(sch.n, name))
        members == SetToSeq(other_parties \cup {name})
    IN  [k \in 1 .. Len(members) |-> m[members[k]]]

\* A denominator that leaves out the factor i + 1 of the evaluation point.
PartialDenominatorNoPoint(contributors, i) ==
    _prod(Differences(contributors, i))

\* denominator = (i + 1) * self._prod(j - i for j in contributors if j != i)
PartialDenominator(contributors, i) ==
    (i + 1) * _prod(Differences(contributors, i))

Shamir_reconstruct_raw(sch, name, shs, other_parties) ==
    IF ~other_parties.named
    THEN Returned(SumSeq([k \in 1 .. sch.n |-> weights(sch)[k - 1] * shs[k]])
                    % sch.modulus)
    ELSE
      LET contributors == Contributors(sch, name, other_parties.parties)
          numerator == _prod([k \in 1 .. Len(contributors) |-> contributors[k] + 1])
          invertible ==
              \A k \in 1 .. Len(contributors) :
                  HasModInv(PartialDenominator(contributors, contributors[k]),
                            sch.modulus)
          partial_weight(i) ==
              numerator * mod_inv(PartialDenominator(contributors, i), sch.modulus)
      IN IF ~invertible
         THEN Raised("ZeroDivisionError: inverse does not exist")
         ELSE Returned(
                SumSeq([k \in 1 .. Len(contributors) |->
                          partial_weight(contributors[k]) * shs[contributors[k] + 1]])
                    % sch.modulus)

(***************************************************************************)
(* Additive scheme.                                                        *)
(***************************************************************************)
\* The draws of secrets.randbelow(modulus) for i in range(1, nr_parties).
AdditiveRandomness(sch) == [1 .. sch.n - 1 -> 0 .. sch.modulus - 1]

\* A sharing whose own share adds the random values instead of subtracting them.
Additive_share_secret_plus(sch, raw, rnd) ==
    LET others == [k \in 1 .. Len(rnd) |-> rnd[k] % sch.modulus]
    IN <<(raw + SumSeq(others)) % sch.modulus>> \o others

\* A sharing whose own share is the secret itself, unmasked.
Additive_share_secret_unmasked(sch, raw, rnd) ==
    LET others == [k \in 1 .. Len(rnd) |-> rnd[k] % sch.modulus]
    IN <<raw % sch.modulus>> \o others

Additive_share_secret(sch, raw, rnd) ==
    LET others == [k \in 1 .. Len(rnd) |-> rnd[k] % sch.modulus]
    IN <<(raw - SumSeq(others)) % sch.modulus>> \o others

\* An additive reconstruction that raises only for a non-empty named set.
Additive_reconstruct_raw_nonempty(sch, shs, other_parties) ==
    IF other_parties.named /\ other_parties.parties # {}
    THEN Raised("ValueError: This is not a threshold scheme")
    ELSE Returned(SumSeq(shs) % sch.modulus)

Additive_reconstruct_raw(sch, shs, other_parties) ==
    IF other_parties.named
    THEN Raised("ValueError: This is not a threshold scheme")
    ELSE Returned(SumSeq(shs) % sch.modulus)

(***************************************************************************)
(* Scheme dispatch.                                                        *)
(***************************************************************************)
Randomness(sch) ==
    IF sch.kind = "shamir" THEN ShamirRandomness(sch) ELSE AdditiveRandomness(sch)

_share_secret(sch, raw, rnd) ==
    IF sch.kind = "shamir"
    THEN Shamir_share_secret(sch, raw, rnd)
    ELSE Additive_share_secret(sch, raw, rnd)

_reconstruct_raw(sch, name, shs, other_parties) ==
    IF sch.kind = "shamir"
    THEN Shamir_reconstruct_raw(sch, name, shs, other_parties)
    ELSE Additive_reconstruct_raw(sch, shs, other_parties)

\* SecretSharingScheme._reconstruct
Base_reconstruct(sch, name, shs, apply_encoding, other_parties) ==
    LET raw == _reconstruct_raw(sch, name, shs, other_parties)
    IN IF raw.kind = "error" THEN raw
       ELSE IF apply_encoding THEN Returned(decode(sch, raw.val)) ELSE raw

ThresholdError(threshold, num_parties) ==
    "ValueError: The scheme's threshold is " \o ToString(threshold)
        \o ", but only " \o ToString(num_parties) \o " were supplied"

\* ThresholdSecretSharingScheme._reconstruct
Threshold_reconstruct(sch, name, shs, apply_encoding, other_parties) ==
    IF /\ other_parties.named
       /\ other_parties.parties # {}
       /\ Cardinality(other_parties.parties) + 1 < sch.threshold
    THEN Raised(ThresholdError(sch.threshold, Cardinality(other_parties.parties) + 1))
    ELSE Base_reconstruct(sch, name, shs, apply_encoding, other_parties)

_reconstruct(sch, name, shs, apply_encoding, other_parties) ==
    IF sch.kind = "shamir"
    THEN Threshold_reconstruct(sch, name, shs, apply_encoding, other_parties)
    ELSE Base_reconstruct(sch, name, shs, apply_encoding, other_parties)

\* The scheme instance after a call of _reconstruct.  Shamir's
\* _reconstruct_raw, when the threshold check has let the call through, reads
\* self.weights for the full set, and self.mapping (and through it
\* self.all_party_names) for a named set; the additive scheme reads neither.
AfterReconstruct(sch, name, other_parties) ==
    IF \/ sch.kind # "shamir"
       \/ /\ other_parties.named
          /\ other_parties.parties # {}
          /\ Cardinality(other_parties.parties) + 1 < sch.threshold
    THEN sch
    ELSE IF ~other_parties.named
         THEN Accessed(sch, "weights", weights(sch))
         ELSE Accessed(Accessed(sch, "all_party_names",
                                all_party_names(sch.n, name)),
                       "mapping", mapping(sch.n, name))

\* A reconstruct whose Shamir sum over the full set scales the list it was
\* given in place (shares[i] *= weights[i]) before it sums the list.
reconstruct_in_place(sch, name, shs, apply_encoding, other_parties) ==
    [result |-> _reconstruct(sch, name, shs, apply_encoding, other_parties),
     scheme |-> AfterReconstruct(sch, name, other_parties),
     _shares |-> IF sch.kind = "shamir" /\ ~other_parties.named
                 THEN [k \in 1 .. Len(shs) |-> weights(sch)[k - 1] * shs[k]]
                 ELSE shs]

\* SecureNumber.reconstruct: what the call returns or raises, the scheme
\* instance after the call and the list self._shares after the call.  The
\* call hands self._shares itself to _reconstruct; _reconstruct and both
\* _reconstruct_raw read shares[i] and assign to no element of the list.
reconstruct(sch, name, shs, apply_encoding, other_parties) ==
    [result |-> _reconstruct(sch, name, shs, apply_encoding, other_parties),
     scheme |-> AfterReconstruct(sch, name, other_parties),
     _shares |-> shs]

(***************************************************************************)
(* Sharing and reconstructing one secret at one party.                     *)
(***************************************************************************)
\* The threshold argument of the constructor: None ({}), or a threshold in 1 .. n.
ThresholdArgs(n) == {{}} \cup {{k} : k \in 1 .. n}

Schemes ==
    UNION {{ShamirSecretSharingScheme(n, m, thr) : thr \in ThresholdArgs(n)} :
            n \in 1 .. MaxN, m \in 2 .. MaxMod}
    \cup {AdditiveSecretSharingScheme(n, m) : n \in 1 .. MaxN, m \in 2 .. MaxMod}

\* No reconstruct call has been made on the handle yet.
NotCalled ==
    [done |-> FALSE, apply_encoding |-> FALSE, other_parties |-> None,
     result |-> NoOutcome]

InitSharing ==
    /\ scheme \in Schemes
    /\ local \in PoolNames(scheme.n)
    /\ secret \in 0 .. scheme.modulus - 1
    /\ shares = <<>>
    /\ outcome = NotCalled
    /\ inputs = <<>>
    /\ procs = <<>>
    /\ pool = {}

\* scheme.share(name, secret, apply_encoding=False): SecureNumber with all slots.
Share ==
    /\ shares = <<>>
    /\ \E rnd \in Randomness(scheme) :
          shares' = _share_secret(scheme, secret, rnd)
    /\ UNCHANGED <<scheme, local, secret, outcome, protocolVars>>

\* SecureNumber.reconstruct(apply_encoding, other_parties)
Reconstruct ==
    /\ shares # <<>>
    /\ ~outcome.done
    /\ \E apply_encoding \in BOOLEAN :
       \E other_parties \in
            {None} \cup {Named(S) : S \in SUBSET PoolClients(scheme.n, local)} :
          outcome' = [done |-> TRUE,
                      apply_encoding |-> apply_encoding,
                      other_parties |-> other_parties,
                      result |-> _reconstruct(scheme, local, shares,
                                              apply_encoding, other_parties)]
    /\ UNCHANGED <<scheme, local, secret, shares, protocolVars>>

NextSharing == Share \/ Reconstruct

SpecSharing == InitSharing /\ [][NextSharing]_vars

Spec == SpecSharing

(***************************************************************************)
(* The shared-value handle (SecureNumber) and its share slots.             *)
(***************************************************************************)
SecureNumber(name, shs) == [name |-> name, shares |-> shs]

\* A local variable that holds no handle yet.
NoHandle == SecureNumber("", <<>>)

\* An empty_shares with one slot too few.
empty_shares_short(sch) == [k \in 1 .. sch.n - 1 |-> 0]

\* An empty_shares whose placeholder is no share value.
empty_shares_unset(sch) == [k \in 1 .. sch.n |-> -1]


empty_shares(sch) == [k \in 1 .. sch.n |-> 0]

\* shares[self.mapping[owner]]
get_share(sch, me, shs, owner) == shs[mapping(sch.n, me)[owner] + 1]

\* shares[self.mapping[self.pool.name]]
get_local_share(sch, me, shs) == shs[mapping(sch.n, me)[me] + 1]

set_share(sch, me, shs, owner, value) ==
    [shs EXCEPT ![mapping(sch.n, me)[owner] + 1] = value]

\* A from_share that stores the share in every slot.
from_share_all_slots(sch, me, secret_name, value) ==
    SecureNumber(secret_name, [k \in 1 .. sch.n |-> value])

\* SecureNumber.from_share with owner=None: the share is stored in the slot
\* of the local party, the other slots keep the placeholder of empty_shares.
from_share(sch, me, secret_name, value) ==
    SecureNumber(secret_name, set_share(sch, me, empty_shares(sch), me, value))

\* SecretSharingScheme.share: encode if asked, then _share_secret.  The
\* ValueError of encode passes through: no handle is made.
share(sch, name, value, encoding, rnd) ==
    LET secret_to_be_shared == IF encoding THEN encode(sch, value) ELSE Returned(value)
    IN IF secret_to_be_shared.kind = "error"
       THEN secret_to_be_shared
       ELSE SecureNumber(name, _share_secret(sch, secret_to_be_shared.val, rnd))

(***************************************************************************)
(* Linear operations on shares.                                            *)
(***************************************************************************)
Shamir_add_encoded(sch, value1, value2) == (value1 + value2) % sch.modulus

\* A scalar addition that only the party of index 0 performs.
Shamir_scalar_add_encoded_first(sch, me, value1, value2) ==
    IF mapping(sch.n, me)[me] = 0
    THEN (value1 + value2) % sch.modulus
    ELSE value1

Shamir_scalar_add_encoded(sch, me, value1, value2) ==
    (value1 + value2) % sch.modulus

Shamir_scalar_mul_encoded(sch, value1, value2) == (value1 * value2) % sch.modulus

Additive_add_encoded(sch, value1, value2) == (value1 + value2) % sch.modulus

\* A scalar addition that every party performs.
Additive_scalar_add_encoded_all(sch, me, value1, value2) ==
    (value1 + value2) % sch.modulus

\* A scalar addition that only the party of the last index performs.
Additive_scalar_add_encoded_last(sch, me, value1, value2) ==
    IF mapping(sch.n, me)[me] = sch.n - 1
    THEN (value1 + value2) % sch.modulus
    ELSE value1


Additive_scalar_add_encoded(sch, me, value1, value2) ==
    IF mapping(sch.n, me)[me] = 0
    THEN (value1 + value2) % sch.modulus
    ELSE value1

Additive_scalar_mul_encoded(sch, value1, value2) == (value1 * value2) % sch.modulus

_add_encoded(sch, value1, value2) ==
    IF sch.kind = "shamir"
    THEN Shamir_add_encoded(sch, value1, value2)
    ELSE Additive_add_encoded(sch, value1, value2)

_scalar_add_encoded(sch, me, value1, value2) ==
    IF sch.kind = "shamir"
    THEN Shamir_scalar_add_encoded(sch, me, value1, value2)
    ELSE Additive_scalar_add_encoded(sch, me, value1, value2)

_scalar_mul_encoded(sch, value1, value2) ==
    IF sch.kind = "shamir"
    THEN Shamir_scalar_mul_encoded(sch, value1, value2)
    ELSE Additive_scalar_mul_encoded(sch, value1, value2)

(***************************************************************************)
(* Names of derived handles.                                               *)
(***************************************************************************)
\* f"{value1.name}+{value2.name}"
AddName(name1, name2) == name1 \o "+" \o name2

\* f"{value1.name}+{value2}"
ScalarAddName(name1, value2) == name1 \o "+" \o ToString(value2)

\* f"({value1.name})*{value2}"
ScalarMulName(name1, value2) == "(" \o name1 \o ")*" \o ToString(value2)

\* f"({value1.name})*{value2.name}": the name of a product and its resharing id.
MulName(name1, name2) == "(" \o name1 \o ")*" \o name2

(***************************************************************************)
(* The synchronous operators of a handle.  A Python operand is a handle    *)
(* or an int; an int k is the record PyInt(k).                             *)
(***************************************************************************)
PyInt(k) == [value |-> k]

IsSecureNumber(v) == "name" \in DOMAIN v

_add_sync(sch, me, value1, value2) ==
    IF IsSecureNumber(value2)
    THEN from_share(sch, me, AddName(value1.name, value2.name),
                    _add_encoded(sch, get_local_share(sch, me, value1.shares),
                                 get_local_share(sch, me, value2.shares)))
    ELSE from_share(sch, me, ScalarAddName(value1.name, value2.value),
                    _scalar_add_encoded(sch, me,
                                        get_local_share(sch, me, value1.shares),
                                        value2.value))

\* The message of the TypeError, without its backquotes.
MulSyncError ==
    "TypeError: Multiplication of two secrets is not a linear operation "
        \o "and requires additional communication. "
        \o "For this use scheme.mul(x, y) rather than x * y"

_mul_sync(sch, me, value1, value2) ==
    IF IsSecureNumber(value2)
    THEN Raised(MulSyncError)
    ELSE from_share(sch, me, ScalarMulName(value1.name, value2.value),
                    _scalar_mul_encoded(sch, get_local_share(sch, me, value1.shares),
                                        value2.value))

__add__(sch, me, self, other) == _add_sync(sch, me, self, other)

__mul__(sch, me, self, other) == _mul_sync(sch, me, self, other)

\* self * -1
__neg__(sch, me, self) == __mul__(sch, me, self, PyInt(-1))

\* Python's unary minus on a handle or an int.
Negative(sch, me, v) ==
    IF IsSecureNumber(v) THEN __neg__(sch, me, v) ELSE PyInt(-v.value)

\* self + (-other)
__sub__(sch, me, self, other) == __add__(sch, me, self, Negative(sch, me, other))

\* other + (-self), other an int: the int defers to __radd__ = __add__.
__rsub__(sch, me, self, other) == __add__(sch, me, __neg__(sch, me, self), other)

\* Python's binary operators: the left operand's method, or the reflected
\* method of the right operand when the left operand is an int.
Plus(sch, me, a, b) ==
    IF IsSecureNumber(a) THEN __add__(sch, me, a, b)
    ELSE IF IsSecureNumber(b) THEN __add__(sch, me, b, a)
    ELSE PyInt(a.value + b.value)

Minus(sch, me, a, b) ==
    IF IsSecureNumber(a) THEN __sub__(sch, me, a, b)
    ELSE IF IsSecureNumber(b) THEN __rsub__(sch, me, b, a)
    ELSE PyInt(a.value - b.value)

Times(sch, me, a, b) ==
    IF IsSecureNumber(a) THEN __mul__(sch, me, a, b)
    ELSE IF IsSecureNumber(b) THEN __mul__(sch, me, b, a)
    ELSE PyInt(a.value * b.value)

\* Expressions over the arguments x, y, z (Arg(1), Arg(2), Arg(3)).
Arg(i) == [op |-> "arg", i |-> i]
Const(k) == [op |-> "const", k |-> k]
Neg(e) == [op |-> "neg", l |-> e]
Add(l, r) == [op |-> "add", l |-> l, r |-> r]
Sub(l, r) == [op |-> "sub", l |-> l, r |-> r]
Mul(l, r) == [op |-> "mul", l |-> l, r |-> r]

RECURSIVE Eval(_, _, _, _)
Eval(sch, me, e, args) ==
    CASE e.op = "arg" -> args[e.i]
      [] e.op = "const" -> PyInt(e.k)
      [] e.op = "neg" -> Negative(sch, me, Eval(sch, me, e.l, args))
      [] e.op = "add" ->
            Plus(sch, me, Eval(sch, me, e.l, args), Eval(sch, me, e.r, args))
      [] e.op = "sub" ->
            Minus(sch, me, Eval(sch, me, e.l, args), Eval(sch, me, e.r, args))
      [] e.op = "mul" ->
            Times(sch, me, Eval(sch, me, e.l, args), Eval(sch, me, e.r, args))

\* The functions of the tests, with x, y, z as Arg(1), Arg(2), Arg(3).
LINEAR_FUNCTIONS ==
    << Add(Arg(1), Arg(2)),
       Add(Arg(1), Const(7)),
       Add(Const(7), Arg(1)),
       Neg(Arg(2)),
       Sub(Arg(2), Arg(3)),
       Sub(Arg(2), Const(7)),
       Sub(Const(7), Arg(3)),
       Mul(Const(7), Arg(3)),
       Mul(Arg(3), Const(7)),
       Sub(Add(Neg(Arg(1)), Mul(Const(2), Arg(2))), Add(Arg(3), Const(1))),
       Add(Sub(Mul(Const(3), Sub(Arg(3), Const(1))), Arg(2)), Const(2)) >>

INPUT_TRIPLETS ==
    << <<17, 29, 61>>, <<4, 0, 1>>, <<-5, 11, -23>>, <<97, -314, 41>> >>

INPUT_MULTIPLICATIONS ==
    << <<1>>, <<1, 2>>, <<3, 3>>, <<3, 2, 1>>, <<1, 2, 1, 3, 2, 2>> >>

\* The names under which the three parties share their secrets.
SecretNames == <<"secret_alice", "secret_bob", "secret_charlie">>

(***************************************************************************)
(* Messages.  The pool delivers a message to a recv of its receiver that   *)
(* names its sender and its msg_id, in no particular order.  origin        *)
(* records which coroutine of the sender sent it; no code reads it.        *)
(***************************************************************************)
ClassName(sch) ==
    IF sch.kind = "shamir"
    THEN "ShamirSecretSharingScheme"
    ELSE "AdditiveSecretSharingScheme"

\* f"{self.__class__.__name__}_send/recv_{secret_name}"
SendRecvId(sch, secret_name) == ClassName(sch) \o "_send/recv_" \o secret_name

\* f"{self.scheme.__class__.__name__}_exchange_{self.name}"
ExchangeId(sch, name) == ClassName(sch) \o "_exchange_" \o name

Message(sender, receiver, msg_id, message, origin) ==
    [sender |-> sender, receiver |-> receiver, msg_id |-> msg_id,
     message |-> message, origin |-> origin]

\* A send that gives every client the sender's own share.
send_local_share(sch, me, handle, origin) ==
    {Message(me, party, SendRecvId(sch, handle.name),
             get_share(sch, me, handle.shares, me), origin) :
        party \in PoolClients(sch.n, me)}

\* A send that reaches one client only.
send_one_client(sch, me, handle, origin) ==
    {Message(me, party, SendRecvId(sch, handle.name),
             get_share(sch, me, handle.shares, party), origin) :
        party \in {CHOOSE q \in PoolClients(sch.n, me) : TRUE}}


\* SecureNumber.send: to every client the share of that client.
send(sch, me, handle, origin) ==
    {Message(me, party, SendRecvId(sch, handle.name),
             get_share(sch, me, handle.shares, party), origin) :
        party \in PoolClients(sch.n, me)}

\* pool.broadcast(message, msg_id)
broadcast(sch, me, message, msg_id, origin) ==
    {Message(me, party, msg_id, message, origin) : party \in PoolClients(sch.n, me)}

\* pool.recv(sender, msg_id): the messages in flight that the call can return.
recv(net, sender, me, msg_id) ==
    {m \in net : m.sender = sender /\ m.receiver = me /\ m.msg_id = msg_id}

\* A recv_all that takes the messages of any sender.
recv_all_any_sender(net, sender_names, me, msg_id) ==
    {pick \in [sender_names -> net] :
        \A q \in sender_names : pick[q].receiver = me /\ pick[q].msg_id = msg_id}

\* pool.recv_all(sender_names, msg_id): one message of every sender.
recv_all(net, sender_names, me, msg_id) ==
    {pick \in [sender_names -> net] :
        \A q \in sender_names : pick[q] \in recv(net, q, me, msg_id)}

(***************************************************************************)
(* Multiplication by resharing.                                            *)
(***************************************************************************)
\* f"resharing_{self.pool.name}_{resharing_id}"; a name without the id.
ResharingNameOfParty(party, resharing_id) == "resharing_" \o party

ResharingName(party, resharing_id) ==
    "resharing_" \o party \o "_" \o resharing_id

\* A local value that leaves out the interpolation weight.
local_value_unweighted(sch, me, value1, value2) ==
    (value1 * value2) % sch.modulus

\* index = self.mapping[self.pool.name]
\* local_value = (self.weights[index] * value1 * value2) % self.modulus
local_value(sch, me, value1, value2) ==
    (weights(sch)[mapping(sch.n, me)[me]] * value1 * value2) % sch.modulus

MulError(sch) ==
    "ValueError: Ciphertext multiplication not possible with n="
        \o ToString(sch.n) \o " parties and threshold equal to t="
        \o ToString(sch.threshold) \o ". Multiplication requires 2t-1 <= n."

(***************************************************************************)
(* Protocol runs of three parties, as in the tests.  A coroutine is named  *)
(* <<party, k>>: the k-th coroutine that the party runs concurrently.      *)
(***************************************************************************)
NrParties == 3
SSS_TEST_MODULUS == 1679

MaxDraw == 1
MaxTriplets == 1
MaxChain == 3

Min(a, b) == IF a < b THEN a ELSE b

\* The values of secrets.randbelow(modulus) that the runs draw.
Draws(modulus) == (0 .. Min(MaxDraw, modulus) - 1) \cup {modulus - 1}

\* The random values of one _share_secret call, each among `draws`.
SampledRandomness(sch, draws) ==
    IF sch.kind = "shamir"
    THEN [1 .. sch.threshold - 1 -> draws]
    ELSE [1 .. sch.n - 1 -> draws]

AllTriplets == {INPUT_TRIPLETS[i] : i \in 1 .. Len(INPUT_TRIPLETS)}

Triplets ==
    {INPUT_TRIPLETS[i] : i \in 1 .. Min(MaxTriplets, Len(INPUT_TRIPLETS))}

Chains ==
    {INPUT_MULTIPLICATIONS[i] : i \in
        {j \in 1 .. Len(INPUT_MULTIPLICATIONS) :
            Len(INPUT_MULTIPLICATIONS[j]) <= MaxChain}}

\* for party in self.all_party_names: if party != self.pool.name
Peers(sch, me) == SelectSeq(all_party_names(sch.n, me), LAMBDA q : q # me)

\* One iteration of the loop of SecureNumber.send: one pool.send, to the
\* client that the iteration of pool.clients gives next.  pool.clients is a
\* set: the order of its iteration is any order.  The coroutine is
\* suspended in every pool.send.
SendStep(sch, me, handle, party, origin) ==
    {m \in send(sch, me, handle, origin) : m.receiver = party}

\* The clients that a loop over pool.clients has still to come to.
Unsent(sch, me, sent) == PoolClients(sch.n, me) \ sent

Coroutine(pc, secrets, secret_result, position) ==
    [pc |-> pc, secrets |-> secrets, secret_result |-> secret_result,
     position |-> position, received |-> 0,
     resharing_id |-> "", resharing |-> NoHandle, result |-> 0, consumed |-> {},
     shared_value |-> NoHandle, sent |-> {},
     revealed |-> NoOutcome]

\* The pc of a coroutine that has its operand at `position` of `chain` next.
AfterOperand(chain, position, reveal) ==
    IF position <= Len(chain) THEN "mul"
    ELSE IF reveal THEN "exchange" ELSE "done"

\* The handles party `me` holds once the three secrets have been shared and
\* received: all slots of its own secret, its own slot of the others.
HeldSecrets(sch, me, values, coefficients) ==
    [i \in 1 .. 3 |->
        LET shared == share(sch, SecretNames[i], values[i], TRUE, coefficients[i])
        IN IF mapping(sch.n, me)[me] + 1 = i
           THEN shared
           ELSE from_share(sch, me, SecretNames[i],
                           get_share(sch, me, shared.shares, me))]

IdleSharing ==
    /\ local = PartyName(0)
    /\ secret = 0
    /\ shares = <<>>
    /\ outcome = NotCalled

\* scheme.share_and_send(name, value) of the party's own secret, up to its
\* first pool.send: share, and the message to the first client.
ShareAndSend(t) ==
    LET me == t[1]
        i == mapping(scheme.n, me)[me] + 1
    IN /\ procs[t].pc = "share_and_send"
       /\ \E rnd \in SampledRandomness(scheme, inputs.draws) :
            LET shared_value == share(scheme, SecretNames[i], inputs.values[i], TRUE, rnd)
            IN \E party \in Unsent(scheme, me, {}) :
                /\ procs' = [procs EXCEPT ![t].shared_value = shared_value,
                                          ![t].sent = {party},
                                          ![t].pc = "send"]
                /\ pool' = pool \cup SendStep(scheme, me, shared_value, party, t[2])
       /\ UNCHANGED <<sharingVars, inputs>>

\* share_and_send resumes in the loop of SecureNumber.send: the pool.send to
\* the next client, or after the last one the return of the handle.
Send(t) ==
    LET me == t[1]
        i == mapping(scheme.n, me)[me] + 1
    IN /\ procs[t].pc = "send"
       /\ IF Unsent(scheme, me, procs[t].sent) # {}
          THEN \E party \in Unsent(scheme, me, procs[t].sent) :
                /\ procs' = [procs EXCEPT ![t].sent = @ \cup {party}]
                /\ pool' = pool \cup SendStep(scheme, me, procs[t].shared_value,
                                              party, t[2])
          ELSE /\ procs' = [procs EXCEPT ![t].secrets[i] = procs[t].shared_value,
                                         ![t].shared_value = NoHandle,
                                         ![t].sent = {},
                                         ![t].pc = "receive"]
               /\ pool' = pool
       /\ UNCHANGED <<sharingVars, inputs>>

\* scheme.receive(peer, name) of the next peer's secret
Receive(t) ==
    LET me == t[1]
        peer == Peers(scheme, me)[procs[t].received + 1]
        j == mapping(scheme.n, me)[peer] + 1
        last == procs[t].received + 1 = Len(Peers(scheme, me))
    IN /\ procs[t].pc = "receive"
       /\ \E msg \in recv(pool, peer, me, SendRecvId(scheme, SecretNames[j])) :
            /\ procs' = [procs EXCEPT
                            ![t].secrets[j] =
                                from_share(scheme, me, SecretNames[j], msg.message),
                            ![t].received = IF last THEN 0 ELSE @ + 1,
                            ![t].pc = IF last THEN "calculate" ELSE "receive"]
            /\ pool' = pool \ {msg}
       /\ UNCHANGED <<sharingVars, inputs>>

\* secret_result = linear_function(secret_alice, secret_bob, secret_charlie)
Calculate(t) ==
    /\ procs[t].pc = "calculate"
    /\ procs' = [procs EXCEPT
                    ![t].secret_result =
                        Eval(scheme, t[1], LINEAR_FUNCTIONS[inputs.f], procs[t].secrets),
                    ![t].pc = "exchange"]
    /\ UNCHANGED <<sharingVars, inputs, pool>>

\* scheme.mul(value1, value2) up to the first pool.send of _mul_encoded: the
\* checks, the local value, share of its resharing and the message to the
\* first client.
MulShareAndSend(t) ==
    LET me == t[1]
        chain == inputs.chains[t[2]]
        value1 == procs[t].secret_result
        value2 == procs[t].secrets[chain[procs[t].position]]
        resharing_id == MulName(value1.name, value2.name)
    IN /\ procs[t].pc = "mul"
       /\ IF 2 * scheme.threshold - 1 > scheme.n
          THEN /\ procs' = [procs EXCEPT ![t].pc = "raised",
                                         ![t].revealed = Raised(MulError(scheme))]
               /\ pool' = pool
          ELSE \E rnd \in SampledRandomness(scheme, inputs.draws) :
                 LET resharing ==
                        share(scheme, ResharingName(me, resharing_id),
                              local_value(scheme, me,
                                          get_local_share(scheme, me, value1.shares),
                                          get_local_share(scheme, me, value2.shares)),
                              FALSE, rnd)
                 IN \E party \in Unsent(scheme, me, {}) :
                     /\ procs' = [procs EXCEPT
                                     ![t].resharing_id = resharing_id,
                                     ![t].shared_value = resharing,
                                     ![t].sent = {party},
                                     ![t].pc = "mul_send"]
                     /\ pool' = pool \cup SendStep(scheme, me, resharing, party, t[2])
       /\ UNCHANGED <<sharingVars, inputs>>

\* _mul_encoded resumes in the loop of SecureNumber.send of its resharing:
\* the pool.send to the next client, or after the last one
\* resharing = the handle returned, result = resharing.get_local_share.
MulSend(t) ==
    LET me == t[1]
    IN /\ procs[t].pc = "mul_send"
       /\ IF Unsent(scheme, me, procs[t].sent) # {}
          THEN \E party \in Unsent(scheme, me, procs[t].sent) :
                /\ procs' = [procs EXCEPT ![t].sent = @ \cup {party}]
                /\ pool' = pool \cup SendStep(scheme, me, procs[t].shared_value,
                                              party, t[2])
          ELSE /\ procs' = [procs EXCEPT
                                ![t].resharing = procs[t].shared_value,
                                ![t].result =
                                    get_local_share(scheme, me,
                                                    procs[t].shared_value.shares),
                                ![t].received = 0,
                                ![t].consumed = {},
                                ![t].shared_value = NoHandle,
                                ![t].sent = {},
                                ![t].pc = "mul_receive"]
               /\ pool' = pool
       /\ UNCHANGED <<sharingVars, inputs>>

\* msg = await self.receive(party, f"resharing_{party}_{resharing_id}")
\* result += msg.get_local_share; after the last peer, mul returns the handle.
MulReceive(t) ==
    LET me == t[1]
        chain == inputs.chains[t[2]]
        party == Peers(scheme, me)[procs[t].received + 1]
        last == procs[t].received + 1 = Len(Peers(scheme, me))
        secret_name == ResharingName(party, procs[t].resharing_id)
    IN /\ procs[t].pc = "mul_receive"
       /\ \E msg \in recv(pool, party, me, SendRecvId(scheme, secret_name)) :
            LET received == from_share(scheme, me, secret_name, msg.message)
                result == procs[t].result
                            + get_local_share(scheme, me, received.shares)
            IN /\ procs' = [procs EXCEPT
                    ![t].result = result,
                    ![t].received = @ + 1,
                    ![t].consumed = @ \cup {[sender |-> msg.sender,
                                             origin |-> msg.origin,
                                             message |-> msg.message]},
                    ![t].secret_result =
                        IF last
                        THEN from_share(scheme, me, procs[t].resharing_id, result)
                        ELSE @,
                    ![t].position = IF last THEN @ + 1 ELSE @,
                    ![t].pc =
                        IF last
                        THEN AfterOperand(chain, procs[t].position + 1, inputs.reveal)
                        ELSE "mul_receive"]
               /\ pool' = pool \ {msg}
       /\ UNCHANGED <<sharingVars, inputs>>

\* exchange: raise ValueError("This party has no shares for this secret.")
NoSharesError == "ValueError: This party has no shares for this secret."

\* SecureNumber.exchange up to recv_all: it raises on a handle without
\* shares, otherwise the local share goes to every peer.
Exchange(t) ==
    LET me == t[1]
        handle == procs[t].secret_result
    IN /\ procs[t].pc = "exchange"
       /\ IF Len(handle.shares) = 0
          THEN /\ pool' = pool
               /\ procs' = [procs EXCEPT ![t].pc = "raised",
                                         ![t].revealed = Raised(NoSharesError)]
          ELSE /\ pool' = pool \cup broadcast(scheme, me,
                                      get_share(scheme, me, handle.shares, me),
                                      ExchangeId(scheme, handle.name), t[2])
               /\ procs' = [procs EXCEPT ![t].pc = "recv_all"]
       /\ UNCHANGED <<sharingVars, inputs>>

\* Two variables of a coroutine hold the same SecureNumber object.  Every
\* object made in a run has a name of its own (the received secrets have
\* the names of SecretNames, an operator result has a name with an
\* operator in it), so the variables hold one object when they hold one
\* name and the same shares.
SameObject(h, g) == h # NoHandle /\ h = g

\* The rest of exchange_and_reconstruct: recv_all, set_share, reconstruct.
\* set_share fills the handle in place: a variable of the coroutine that
\* holds the same object (secret_result = secure_inputs[0] of a chain of
\* one operand) sees the filled shares.
ExchangeReceiveAndReconstruct(t) ==
    LET me == t[1]
        handle == procs[t].secret_result
        other_parties == PoolClients(scheme.n, me)
    IN /\ procs[t].pc = "recv_all"
       /\ \E messages \in
                recv_all(pool, other_parties, me, ExchangeId(scheme, handle.name)) :
            LET filled ==
                    [k \in 1 .. scheme.n |->
                        IF \E q \in other_parties : mapping(scheme.n, me)[q] + 1 = k
                        THEN messages[CHOOSE q \in other_parties :
                                        mapping(scheme.n, me)[q] + 1 = k].message
                        ELSE handle.shares[k]]
            IN /\ procs' = [procs EXCEPT
                    ![t].secret_result = SecureNumber(handle.name, filled),
                    ![t].secrets =
                        [k \in DOMAIN @ |->
                            IF SameObject(@[k], handle)
                            THEN SecureNumber(handle.name, filled)
                            ELSE @[k]],
                    ![t].revealed = _reconstruct(scheme, me, filled, TRUE, None),
                    ![t].pc = "done"]
               /\ pool' = pool \ {messages[q] : q \in other_parties}
       /\ UNCHANGED <<sharingVars, inputs>>

(***************************************************************************)
(* test_online_calculation: every party shares its secret, receives the    *)
(* other two, applies a linear function and reveals the result.            *)
(***************************************************************************)
InitCalculation(sch, triplets, draws) ==
    /\ scheme = sch
    /\ IdleSharing
    /\ inputs \in {[values |-> v, draws |-> draws,
                    coefficients |-> <<>>, f |-> f,
                    chains |-> <<>>, reveal |-> TRUE] :
                        v \in triplets, f \in 1 .. Len(LINEAR_FUNCTIONS)}
    /\ procs = [t \in PoolNames(NrParties) \X {1} |->
                    Coroutine("share_and_send", <<NoHandle, NoHandle, NoHandle>>,
                              NoHandle, 1)]
    /\ pool = {}

\* shamir/test/test_shamir.py: the scheme of the fixture scheme_3p
InitLinear ==
    InitCalculation(ShamirSecretSharingScheme(NrParties, SSS_TEST_MODULUS, {}),
                    AllTriplets, Draws(SSS_TEST_MODULUS))

\* additive/test/test_additive.py: the scheme of the fixture scheme_3p.  Every
\* random share of these runs is the draw modulus - 1.
InitLinearAdditive ==
    InitCalculation(AdditiveSecretSharingScheme(NrParties, SSS_TEST_MODULUS),
                    AllTriplets, {SSS_TEST_MODULUS - 1})

NextLinear ==
    \/ \E t \in DOMAIN procs : ShareAndSend(t)
    \/ \E t \in DOMAIN procs : Send(t)
    \/ \E t \in DOMAIN procs : Receive(t)
    \/ \E t \in DOMAIN procs : Calculate(t)
    \/ \E t \in DOMAIN procs : Exchange(t)
    \/ \E t \in DOMAIN procs : ExchangeReceiveAndReconstruct(t)

SpecLinear == InitLinear /\ [][NextLinear]_vars

SpecLinearAdditive == InitLinearAdditive /\ [][NextLinear]_vars

(***************************************************************************)
(* test_online_multiplication, from the point where every party holds its  *)
(* shares of the three secrets: a chain of mul calls, then the reveal.     *)
(***************************************************************************)
MulSchemes ==
    {ShamirSecretSharingScheme(NrParties, SSS_TEST_MODULUS, thr) :
        thr \in ThresholdArgs(NrParties)}

InitMul ==
    /\ scheme \in MulSchemes
    /\ IdleSharing
    /\ inputs \in {[values |-> v, draws |-> Draws(scheme.modulus),
                    coefficients |-> c, f |-> 0,
                    chains |-> <<chain>>, reveal |-> TRUE] :
                        v \in Triplets,
                        c \in [1 .. 3 -> SampledRandomness(scheme, Draws(scheme.modulus))],
                        chain \in Chains}
    /\ procs = [t \in PoolNames(NrParties) \X {1} |->
                    LET held == HeldSecrets(scheme, t[1], inputs.values,
                                            inputs.coefficients)
                        chain == inputs.chains[1]
                    IN Coroutine(AfterOperand(chain, 2, TRUE), held,
                                 held[chain[1]], 2)]
    /\ pool = {}

NextMul ==
    \/ \E t \in DOMAIN procs : MulShareAndSend(t)
    \/ \E t \in DOMAIN procs : MulSend(t)
    \/ \E t \in DOMAIN procs : MulReceive(t)
    \/ \E t \in DOMAIN procs : Exchange(t)
    \/ \E t \in DOMAIN procs : ExchangeReceiveAndReconstruct(t)

SpecMul == InitMul /\ [][NextMul]_vars

(***************************************************************************)
(* (asyncio.gather of two mul calls), on shares of the three secrets.      *)
(* Every random coefficient of a run is the draw modulus - 1.              *)
(***************************************************************************)
\* The operand pairs of the two concurrent multiplications: x*y with z*z,
\* and x*y with y*x.
ConcurrentPairs ==
    { <<INPUT_MULTIPLICATIONS[2], INPUT_MULTIPLICATIONS[3]>>,
      <<INPUT_MULTIPLICATIONS[2], <<2, 1>>>> }

InitConcurrent ==
    /\ scheme = ShamirSecretSharingScheme(NrParties, SSS_TEST_MODULUS, {})
    /\ IdleSharing
    /\ inputs \in {[values |-> v, draws |-> {r},
                    coefficients |-> [i \in 1 .. 3 |-> <<r>>], f |-> 0,
                    chains |-> chains, reveal |-> FALSE] :
                        v \in Triplets,
                        r \in {scheme.modulus - 1},
                        chains \in ConcurrentPairs}
    /\ procs = [t \in PoolNames(NrParties) \X {1, 2} |->
                    LET held == HeldSecrets(scheme, t[1], inputs.values,
                                            inputs.coefficients)
                        chain == inputs.chains[t[2]]
                    IN Coroutine("mul", held, held[chain[1]], 2)]
    /\ pool = {}

NextConcurrent ==
    \/ \E t \in DOMAIN procs : MulShareAndSend(t)
    \/ \E t \in DOMAIN procs : MulSend(t)
    \/ \E t \in DOMAIN procs : MulReceive(t)

SpecConcurrent == InitConcurrent /\ [][NextConcurrent]_vars

(***************************************************************************)
(* The names one party derives.  Each of two concurrent coroutines of the  *)
(* party holds one handle (secret_result) and runs a program of calls of   *)
(* the scheme on it: _add_sync(secret_result, base) (add) or               *)
(* await scheme.mul(base, secret_result) (mul).  A handle is kept as its   *)
(* name, the value that the shares of the parties stand for (denotes: the  *)
(* sum of weights[i] * share of party i) and whether these shares lie on   *)
(* one polynomial of a degree below the threshold (on_polynomial).  The    *)
(* peers run the same two programs, at their own pace.                     *)
(***************************************************************************)
MaxNameLen == 7

MaxOps == 3

\* The modulus of the scheme whose names are explored: a prime that has the
\* value of the base handle in the range of encode.
NamesModulus == 37

BaseNames == <<"x">>

\* A handle as its name, the value its shares stand for, as a residue of
\* the modulus, and whether the shares lie on one polynomial of a degree
\* below the threshold.
NamedValue(name, denotes, on_polynomial) ==
    [name |-> name, denotes |-> denotes, on_polynomial |-> on_polynomial]

BaseHandles ==
    {NamedValue(BaseNames[i], INPUT_TRIPLETS[1][i], TRUE) :
        i \in 1 .. Len(BaseNames)}

\* No mul call of the coroutine is in flight.
NoCall == [resharing_id |-> "", value1 |-> NamedValue("", 0, TRUE),
           value2 |-> NamedValue("", 0, TRUE)]

\* One operation of a program, and the name of secret_result after the
\* first `done` operations of a program.
Operations == {[do |-> d, base |-> b] : d \in {"add", "mul"}, b \in BaseHandles}

RECURSIVE NameAfter(_, _)
NameAfter(program, done) ==
    IF done = 0 THEN program.start.name
    ELSE LET operation == program.ops[done]
             before == NameAfter(program, done - 1)
         IN IF operation.do = "add"
            THEN AddName(before, operation.base.name)
            ELSE MulName(operation.base.name, before)

\* The programs whose names stay within MaxNameLen: the name of a sum, and
\* of the operand of a mul.
Programs ==
    {program \in [start : BaseHandles,
                  ops : UNION {[1 .. n -> Operations] : n \in 0 .. MaxOps}] :
        \A q \in 1 .. Len(program.ops) :
            Len(NameAfter(program, IF program.ops[q].do = "add" THEN q ELSE q - 1))
                <= MaxNameLen}

InitNames ==
    /\ scheme = ShamirSecretSharingScheme(NrParties, NamesModulus, {})
    /\ IdleSharing
    /\ inputs \in [{1, 2} -> Programs]
    /\ procs = [k \in {1, 2} |->
                    [secret_result |-> inputs[k].start, call |-> NoCall,
                     position |-> 0]]
    /\ pool = {}

\* The next operation of coroutine k is `do`.
NextOperation(k, do) ==
    /\ procs[k].call = NoCall
    /\ procs[k].position < Len(inputs[k].ops)
    /\ inputs[k].ops[procs[k].position + 1].do = do

\* secret_result = secret_result + base  (_add_sync): the shares are added
\* party by party, so the values add, and the sum lies on a polynomial of a
\* degree below the threshold if both operands do.
NameAdd(k) ==
    /\ NextOperation(k, "add")
    /\ LET base == inputs[k].ops[procs[k].position + 1].base
           value1 == procs[k].secret_result
           name == AddName(value1.name, base.name)
       IN procs' = [procs EXCEPT
                        ![k].secret_result =
                            NamedValue(name,
                                       (value1.denotes + base.denotes)
                                            % scheme.modulus,
                                       value1.on_polynomial /\ base.on_polynomial),
                        ![k].position = @ + 1]
    /\ UNCHANGED <<sharingVars, inputs, pool>>

\* scheme.mul(base, secret_result) is called: its resharing is sent under
\* the resharing id and its receives wait.
NameMulCall(k) ==
    /\ NextOperation(k, "mul")
    /\ LET base == inputs[k].ops[procs[k].position + 1].base
           value2 == procs[k].secret_result
       IN procs' = [procs EXCEPT
                        ![k].call = [resharing_id |-> MulName(base.name, value2.name),
                                     value1 |-> base, value2 |-> value2],
                        ![k].position = @ + 1]
    /\ UNCHANGED <<sharingVars, inputs, pool>>

\* The resharing id of operation q (a mul) of the program of coroutine c.
CallId(c, q) ==
    MulName(inputs[c].ops[q].base.name, NameAfter(inputs[c], q - 1))

\* A receive of the call of coroutine k takes the fragment that arrives
\* under resharing_{peer}_{id}, whichever call of the peer sent it: the
\* calls of the other coroutine that send under the id of the call of k.
CallsUnderSameId(k) ==
    {cq \in (DOMAIN procs \ {k}) \X (1 .. MaxOps) :
        /\ cq[2] <= Len(inputs[cq[1]].ops)
        /\ inputs[cq[1]].ops[cq[2]].do = "mul"
        /\ CallId(cq[1], cq[2]) = procs[k].call.resharing_id}

\* The mul call returns the handle of the product, named as its resharing id.
\* Each party reshares weights[i] * share1 * share2 on a polynomial of a
\* degree below the threshold and sums the fragments its receives took.
\* When every party takes the fragments of this call, the sums lie on the
\* sum of these polynomials and stand for the sum of weights[i] * share1 *
\* share2: the product of the values of the operands if the operands lie on
\* polynomials of a degree below the threshold (2 * threshold - 1 <= n), and
\* a value that depends on the shares otherwise.  When another call sends
\* under the same id, which fragments the receives of the parties take
\* depends on the schedule: those of this call, as above, or some of the
\* other call, and then the value depends on the pairing and on the random
\* coefficients, and the sums lie on such a polynomial or on none.
NameMulReturn(k) ==
    /\ procs[k].call # NoCall
    /\ \E denotes \in
            IF /\ CallsUnderSameId(k) = {}
               /\ procs[k].call.value1.on_polynomial
               /\ procs[k].call.value2.on_polynomial
            THEN {(procs[k].call.value1.denotes * procs[k].call.value2.denotes)
                        % scheme.modulus}
            ELSE 0 .. scheme.modulus - 1 :
       \E on_polynomial \in
            IF CallsUnderSameId(k) = {} THEN {TRUE} ELSE BOOLEAN :
         procs' = [procs EXCEPT
                      ![k].secret_result =
                          NamedValue(procs[k].call.resharing_id, denotes,
                                     on_polynomial),
                      ![k].call = NoCall]
    /\ UNCHANGED <<sharingVars, inputs, pool>>

NextNames ==
    \/ \E k \in DOMAIN procs : NameAdd(k)
    \/ \E k \in DOMAIN procs : NameMulCall(k)
    \/ \E k \in DOMAIN procs : NameMulReturn(k)

SpecNames == InitNames /\ [][NextNames]_vars

(***************************************************************************)
(* Encoding and decoding one value.                                        *)
(***************************************************************************)
Max(a, b) == IF a < b THEN b ELSE a

\* The moduli of the schemes whose encoding is explored: the constructor
\* takes any integer.
EncodingModuli == (-1 .. MaxMod) \cup {SSS_TEST_MODULUS}

EncodingSchemes ==
    {ShamirSecretSharingScheme(NrParties, m, {}) : m \in EncodingModuli}
    \cup {AdditiveSecretSharingScheme(NrParties, m) : m \in EncodingModuli}

\* The values handed to encode: the supported range and two values beyond
\* each of its ends.
EncodingValues(sch) ==
    Min(min_value(sch), max_value(sch)) - 2 .. Max(min_value(sch), max_value(sch)) + 2

NotEncoded == [encoded |-> NoOutcome, decoded |-> NoOutcome]

InitEncoding ==
    /\ scheme \in EncodingSchemes
    /\ IdleSharing
    /\ inputs \in {[value |-> v] : v \in EncodingValues(scheme)}
    /\ procs = NotEncoded
    /\ pool = {}

\* scheme.encode(value)
Encode ==
    /\ procs.encoded = NoOutcome
    /\ procs' = [procs EXCEPT !.encoded = encode(scheme, inputs.value)]
    /\ UNCHANGED <<sharingVars, inputs, pool>>

\* scheme.decode(encoded_value) of the value that encode returned
Decode ==
    /\ procs.encoded.kind = "value"
    /\ procs.decoded = NoOutcome
    /\ procs' = [procs EXCEPT !.decoded = Returned(decode(scheme, procs.encoded.val))]
    /\ UNCHANGED <<sharingVars, inputs, pool>>

NextEncoding == Encode \/ Decode

SpecEncoding == InitEncoding /\ [][NextEncoding]_vars

(***************************************************************************)
(* Constructing a Shamir scheme from any threshold argument, then sharing  *)
(* and reconstructing with it.                                             *)
(***************************************************************************)
NotConstructed == [kind |-> "none", n |-> 0, modulus |-> 0, threshold |-> 0]

\* The threshold argument of the constructor: None ({}), or any int near 1 .. n.
AnyThresholdArgs(n) == {{}} \cup {{k} : k \in -1 .. n + 1}

\* SecretSharingScheme.__init__: if n <= 0: raise ValueError
PartiesError == "ValueError: The number of parties must be positive."

InitConstruction ==
    /\ scheme = NotConstructed
    /\ local = PartyName(0)
    /\ inputs \in {[n |-> n, modulus |-> m, threshold |-> thr] :
                        n \in 0 .. MaxN, m \in 2 .. MaxMod,
                        thr \in AnyThresholdArgs(MaxN)}
    /\ secret \in 0 .. inputs.modulus - 1
    /\ shares = <<>>
    /\ outcome = NotCalled
    /\ procs = NoOutcome
    /\ pool = {}

\* ShamirSecretSharingScheme(n, modulus, threshold, pool)
Construct ==
    /\ procs = NoOutcome
    /\ IF inputs.n <= 0
       THEN /\ procs' = Raised(PartiesError)
            /\ scheme' = scheme
       ELSE /\ procs' = Returned(0)
            /\ scheme' = ShamirSecretSharingScheme(inputs.n, inputs.modulus,
                                                   inputs.threshold)
    /\ UNCHANGED <<local, secret, shares, outcome, inputs, pool>>

NextConstruction ==
    \/ Construct
    \/ scheme # NotConstructed /\ Share
    \/ scheme # NotConstructed /\ Reconstruct

SpecConstruction == InitConstruction /\ [][NextConstruction]_vars

(***************************************************************************)
(* _mul_encoded called with or without a resharing id.  The resharing_id   *)
(* argument is {} for None and {id} for the string id.                     *)
(***************************************************************************)
ResharingIdError ==
    "ValueError: A resharing_id is required for this scheme and cannot be None."

\* The checks of _mul_encoded without the check of the threshold.
MulPreconditionsIdOnly(sch, resharing_id) ==
    IF resharing_id = {}
    THEN Raised(ResharingIdError)
    ELSE NoOutcome

\* The checks at the head of _mul_encoded: what they raise, NoOutcome if
\* they pass.
MulPreconditions(sch, resharing_id) ==
    IF 2 * sch.threshold - 1 > sch.n
    THEN Raised(MulError(sch))
    ELSE IF resharing_id = {}
         THEN Raised(ResharingIdError)
         ELSE NoOutcome

ResharingIdArgs == {{}, {MulName(SecretNames[1], SecretNames[2])}}

InitMulEncoded ==
    /\ scheme \in MulSchemes
    /\ IdleSharing
    /\ inputs \in {[values |-> v, draws |-> Draws(scheme.modulus),
                    coefficients |-> c, f |-> 0,
                    chains |-> <<INPUT_MULTIPLICATIONS[2]>>, reveal |-> FALSE,
                    resharing_id |-> id] :
                        v \in Triplets,
                        c \in [1 .. 3 -> SampledRandomness(scheme, Draws(scheme.modulus))],
                        id \in ResharingIdArgs}
    /\ procs = [t \in PoolNames(NrParties) \X {1} |->
                    LET held == HeldSecrets(scheme, t[1], inputs.values,
                                            inputs.coefficients)
                    IN Coroutine("mul_encoded", held, held[inputs.chains[1][1]], 2)]
    /\ pool = {}

\* await scheme._mul_encoded(value1.get_local_share, value2.get_local_share,
\* resharing_id) up to its first pool.send.
MulEncodedCall(t) ==
    LET me == t[1]
        chain == inputs.chains[t[2]]
        value1 == procs[t].secret_result
        value2 == procs[t].secrets[chain[procs[t].position]]
        failure == MulPreconditions(scheme, inputs.resharing_id)
    IN /\ procs[t].pc = "mul_encoded"
       /\ IF failure # NoOutcome
          THEN /\ procs' = [procs EXCEPT ![t].pc = "raised",
                                         ![t].revealed = failure]
               /\ pool' = pool
          ELSE \E rnd \in SampledRandomness(scheme, inputs.draws) :
                 LET resharing_id == CHOOSE id \in inputs.resharing_id : TRUE
                     resharing ==
                        share(scheme, ResharingName(me, resharing_id),
                              local_value(scheme, me,
                                          get_local_share(scheme, me, value1.shares),
                                          get_local_share(scheme, me, value2.shares)),
                              FALSE, rnd)
                 IN \E party \in Unsent(scheme, me, {}) :
                     /\ procs' = [procs EXCEPT
                                     ![t].resharing_id = resharing_id,
                                     ![t].shared_value = resharing,
                                     ![t].sent = {party},
                                     ![t].pc = "mul_send"]
                     /\ pool' = pool \cup SendStep(scheme, me, resharing, party, t[2])
       /\ UNCHANGED <<sharingVars, inputs>>

NextMulEncoded ==
    \/ \E t \in DOMAIN procs : MulEncodedCall(t)
    \/ \E t \in DOMAIN procs : MulSend(t)
    \/ \E t \in DOMAIN procs : MulReceive(t)

SpecMulEncoded == InitMulEncoded /\ [][NextMulEncoded]_vars

(***************************************************************************)
(* A scheme constructed without a pool (pool=None): the operations that    *)
(* need no peer, and the first failure of those that do.  `p` is the       *)
(* scheme's _pool: NoPool, or the name of the pool.  Messages are written  *)
(* without their backquotes.                                               *)
(***************************************************************************)
NoPool == "None"

has_communication(p) == p # NoPool

\* NoCommunicationError(specific_reason): f"{specific_reason} {general_tip}"
NoCommunicationError(specific_reason) ==
    "NoCommunicationError: " \o specific_reason
        \o " To use communication, use SecretSharingScheme(..., pool=...)"

\* A pool property that raises the ValueError of all_party_names instead.
pool_not_configured(p) ==
    IF p = NoPool
    THEN Raised("ValueError: This secret sharing scheme is not configured "
                    \o "for communication.")
    ELSE NoOutcome

\* The property SecretSharingScheme.pool: what it raises, NoOutcome if it
\* returns the pool.
pool_property(p) ==
    IF p = NoPool
    THEN Raised(NoCommunicationError("Field self.pool is unset."))
    ELSE NoOutcome

\* The check at the head of SecretSharingScheme.get_local_share.
get_local_share_check(p) ==
    IF ~has_communication(p)
    THEN Raised(NoCommunicationError(
                    "Cannot automatically determine which share belongs to the "
                        \o "local party without pool.name."))
    ELSE NoOutcome

NotImplementedMul(sch) ==
    "NotImplementedError: " \o ClassName(sch)
        \o " does not yet support ciphertext multiplication."

\* shares[...] of a list that is too short
ListIndexError == "IndexError: list index out of range"

\* The operations that talk to peers.
NetworkOperations ==
    {"send", "share_and_send", "receive", "exchange", "exchange_and_reconstruct",
     "validate_identifiers", "mul"}

\* The operations that need no peer.
LocalOperations == {"encode", "decode", "reconstruct"}

\* receive: f"Party {party_name} is not in the pool."
NotInPoolError(party_name) ==
    "ValueError: Party " \o party_name \o " is not in the pool."

\* What a network operation on a handle with shares `shs` raises before it
\* reaches the pool's send, broadcast or recv; NoOutcome if it reaches them.
\* `party` is the party the operation turns to first: the party_name of
\* receive, the client that the iteration of pool.clients gives first in
\* send.  send reads get_share of that client before the first pool.send;
\* exchange reads get_share of the local party before the broadcast; mul
\* reads get_local_share of its operands and runs the checks of _mul_encoded.
NetworkCall(op, sch, p, shs, party) ==
    CASE op = "send" ->
            IF pool_property(p) # NoOutcome
            THEN pool_property(p)
            ELSE IF /\ party \in PoolClients(sch.n, p)
                    /\ Len(shs) < mapping(sch.n, p)[party] + 1
                 THEN Raised(ListIndexError)
                 ELSE NoOutcome
      [] op = "share_and_send" -> pool_property(p)
      [] op = "receive" ->
            IF pool_property(p) # NoOutcome
            THEN pool_property(p)
            ELSE IF party \notin PoolClients(sch.n, p)
                 THEN Raised(NotInPoolError(party))
                 ELSE NoOutcome
      [] op \in {"exchange", "exchange_and_reconstruct"} ->
            IF Len(shs) = 0
            THEN Raised(NoSharesError)
            ELSE IF pool_property(p) # NoOutcome
                 THEN pool_property(p)
                 ELSE IF Len(shs) < mapping(sch.n, p)[p] + 1
                      THEN Raised(ListIndexError)
                      ELSE NoOutcome
      [] op = "validate_identifiers" -> pool_property(p)
      [] op = "mul" ->
            IF get_local_share_check(p) # NoOutcome
            THEN get_local_share_check(p)
            ELSE IF Len(shs) < mapping(sch.n, p)[p] + 1
                 THEN Raised(ListIndexError)
                 ELSE IF sch.kind = "additive"
                      THEN Raised(NotImplementedMul(sch))
                      ELSE IF 2 * sch.threshold - 1 > sch.n
                           THEN Raised(MulError(sch))
                           ELSE NoOutcome

\* encode and decode of the value that the raw secret stands for, and
\* handle.reconstruct() with the defaults.
LocalCall(op, sch, p, raw, shs) ==
    CASE op = "encode" -> encode(sch, decode(sch, raw))
      [] op = "decode" -> Returned(decode(sch, raw))
      [] op = "reconstruct" -> _reconstruct(sch, p, shs, TRUE, None)

NoOperation == [op |-> "", result |-> NoOutcome, before |-> <<>>]

InitNoPool ==
    /\ scheme \in Schemes
    /\ local = NoPool
    /\ secret \in 0 .. scheme.modulus - 1
    /\ shares = <<>>
    /\ outcome = NotCalled
    /\ inputs = <<>>
    /\ procs = NoOperation
    /\ pool = {}

\* One network operation on the handle (mul: with the handle as both
\* operands).  It raises before anything is sent or any slot is set.
CallNetworkOperation ==
    /\ shares # <<>>
    /\ procs = NoOperation
    /\ \E op \in NetworkOperations, party \in PoolNames(MaxN) :
          /\ NetworkCall(op, scheme, local, shares, party).kind = "error"
          /\ procs' = [op |-> op,
                       result |-> NetworkCall(op, scheme, local, shares, party),
                       before |-> shares]
    /\ UNCHANGED <<sharingVars, inputs, pool>>

CallLocalOperation ==
    /\ shares # <<>>
    /\ procs = NoOperation
    /\ \E op \in LocalOperations :
          procs' = [op |-> op,
                    result |-> LocalCall(op, scheme, local, secret, shares),
                    before |-> shares]
    /\ UNCHANGED <<sharingVars, inputs, pool>>

NextNoPool == Share \/ CallNetworkOperation \/ CallLocalOperation

SpecNoPool == InitNoPool /\ [][NextNoPool]_vars

(***************************************************************************)
(* Handles made by SecureNumber.from_share with an owner argument, or by   *)
(* the constructor without shares, and their exchange.  An owner is None,  *)
(* a party name or an index.                                               *)
(***************************************************************************)
OwnerNone == [kind |-> "none", name |-> "", index |-> 0]
OwnerName(p) == [kind |-> "name", name |-> p, index |-> 0]
OwnerIndex(k) == [kind |-> "index", name |-> "", index |-> k]

\* not owner
OwnerIsFalsy(owner) ==
    \/ owner.kind = "none"
    \/ owner.kind = "index" /\ owner.index = 0
    \/ owner.kind = "name" /\ owner.name = ""

NoOwnerError ==
    "ValueError: Cannot determine which index to set the share for without an "
        \o "explicit owner specified or a scheme.pool."

OwnerIndexError(sch, owner) ==
    "IndexError: Owner index " \o ToString(owner) \o " is out of bounds. "
        \o "Valid range is [0, " \o ToString(sch.n) \o ">."

\* The index of the slot that set_share(shares, owner, share) sets.
OwnerSlot(sch, me, owner) ==
    LET target == IF OwnerIsFalsy(owner) THEN OwnerName(me) ELSE owner
    IN IF target.kind = "index"
       THEN target.index
       ELSE mapping(sch.n, me)[target.name]

\* SecureNumber.from_share(secret_name, share, scheme, owner): the handle, or
\* the error raised.
from_share_owner(sch, me, secret_name, value, owner) ==
    IF OwnerIsFalsy(owner) /\ ~has_communication(me)
    THEN Raised(NoOwnerError)
    ELSE IF /\ ~OwnerIsFalsy(owner)
            /\ owner.kind = "index"
            /\ ~(0 <= owner.index /\ owner.index < sch.n)
         THEN Raised(OwnerIndexError(sch, owner.index))
         ELSE SecureNumber(secret_name,
                           [empty_shares(sch) EXCEPT
                                ![OwnerSlot(sch, me, owner) + 1] = value])

\* How the handle is made: by from_share with an owner, or by
\* SecureNumber(name, scheme) without shares.
Makers ==
    {[by |-> "from_share", owner |-> o] :
        o \in {OwnerNone} \cup {OwnerName(p) : p \in PoolNames(NrParties)}
                \cup {OwnerIndex(k) : k \in 0 .. NrParties}}
    \cup {[by |-> "constructor", owner |-> OwnerNone]}

ShareValues == {0, 42}

InitHandles ==
    /\ scheme = ShamirSecretSharingScheme(NrParties, SSS_TEST_MODULUS, {})
    /\ IdleSharing
    /\ inputs \in [maker : Makers, value : ShareValues]
    /\ procs = [t \in PoolNames(NrParties) \X {1} |->
                    [pc |-> "make", secret_result |-> NoHandle, slot |-> -1,
                     revealed |-> NoOutcome]]
    /\ pool = {}

\* The party makes its handle "answer"; slot records which slot was set.
MakeHandle(t) ==
    LET me == t[1]
        made == IF inputs.maker.by = "constructor"
                THEN SecureNumber("answer", <<>>)
                ELSE from_share_owner(scheme, me, "answer", inputs.value,
                                      inputs.maker.owner)
    IN /\ procs[t].pc = "make"
       /\ procs' = [procs EXCEPT
                      ![t].pc = IF IsSecureNumber(made) THEN "exchange" ELSE "raised",
                      ![t].secret_result = IF IsSecureNumber(made) THEN made ELSE @,
                      ![t].slot = IF IsSecureNumber(made) /\ made.shares # <<>>
                                  THEN OwnerSlot(scheme, me, inputs.maker.owner)
                                  ELSE @,
                      ![t].revealed = IF IsSecureNumber(made) THEN @ ELSE made]
       /\ UNCHANGED <<sharingVars, inputs, pool>>

NextHandles ==
    \/ \E t \in DOMAIN procs : MakeHandle(t)
    \/ \E t \in DOMAIN procs : Exchange(t)
    \/ \E t \in DOMAIN procs : ExchangeReceiveAndReconstruct(t)

SpecHandles == InitHandles /\ [][NextHandles]_vars

(***************************************************************************)
(* validate_identifiers.  Every party configures its own pool: view[k] is  *)
(* the name under which a party knows party k (its own name for k = its    *)
(* own index).  A message is delivered under the name that the receiver    *)
(* has for its sender.                                                     *)
(***************************************************************************)
\* A second name for party k, which sorts after every first name.
AliasName(k) == PartyName(k + NrParties)

\* The pool configurations of party i: for every party one of its two
\* names, or the first names with those of the two peers interchanged.
PartyViews(i) ==
    LET indices == 0 .. NrParties - 1
        canonical == [k \in indices |-> PartyName(k)]
        peers == indices \ {i}
        swapped == [k \in indices |->
                        IF k = i THEN PartyName(i)
                        ELSE PartyName(CHOOSE j \in peers : j # k)]
    IN {v \in [indices -> {PartyName(k) : k \in 0 .. 2 * NrParties - 1}] :
            \A k \in indices : v[k] \in {PartyName(k), AliasName(k)}}
       \cup {swapped}

\* sorted([self.pool.name, *(self.pool.clients)]) of a pool configured as view
configured_party_names(view) == Sorted({view[k] : k \in DOMAIN view})

\* f"{self.__class__.__name__}_validate_identifiers"
ValidateId == "SecureNumber_validate_identifiers"

\* str(list_of_names), e.g. ['local0', 'local1']
RECURSIVE ListItems(_)
ListItems(names) ==
    IF Len(names) = 0 THEN ""
    ELSE IF Len(names) = 1 THEN "'" \o names[1] \o "'"
    ELSE "'" \o names[1] \o "', " \o ListItems(Tail(names))

ListRepr(names) == "[" \o ListItems(names) \o "]"

MismatchError(expected, party, result) ==
    "ValueError: Mismatch in party names. This party expected "
        \o ListRepr(expected) \o ", but " \o party \o " returned "
        \o ListRepr(result) \o "."

\* A comparison that finds fault with every sender as soon as one differs.
MismatchingAll(messages, expected) ==
    IF \E q \in DOMAIN messages : messages[q].message # expected
    THEN DOMAIN messages
    ELSE {}

\* if result != self.scheme.all_party_names: the senders for which it holds
Mismatching(messages, expected) ==
    {q \in DOMAIN messages : messages[q].message # expected}

InitValidate ==
    /\ scheme = ShamirSecretSharingScheme(NrParties, SSS_TEST_MODULUS, {})
    /\ IdleSharing
    /\ inputs \in {[views |-> vs] :
                      vs \in {w \in [0 .. NrParties - 1 ->
                                        UNION {PartyViews(i) : i \in 0 .. NrParties - 1}] :
                                 \A i \in 0 .. NrParties - 1 : w[i] \in PartyViews(i)}}
    /\ procs = [t \in PoolNames(NrParties) \X {1} |->
                    [pc |-> "validate", blamed |-> "", revealed |-> NoOutcome]]
    /\ pool = {}

\* validate_identifiers up to recv_all: the own list goes to every peer.
ValidateBroadcast(t) ==
    LET me == t[1]
        view == inputs.views[NameRank(me)]
    IN /\ procs[t].pc = "validate"
       /\ pool' = pool \cup
                    {Message(me, PartyName(k), ValidateId,
                             configured_party_names(view), t[2]) :
                        k \in (0 .. NrParties - 1) \ {NameRank(me)}}
       /\ procs' = [procs EXCEPT ![t].pc = "validate_recv"]
       /\ UNCHANGED <<sharingVars, inputs>>

\* The rest of validate_identifiers: recv_all and the comparison loop, which
\* raises at the first sender, in the order of the received list, whose
\* list differs.
ValidateReceive(t) ==
    LET me == t[1]
        view == inputs.views[NameRank(me)]
        expected == configured_party_names(view)
        senders == PoolClients(NrParties, me)
    IN /\ procs[t].pc = "validate_recv"
       /\ \E messages \in recv_all(pool, senders, me, ValidateId) :
            LET differing == Mismatching(messages, expected)
            IN /\ pool' = pool \ {messages[q] : q \in senders}
               /\ IF differing = {}
                  THEN procs' = [procs EXCEPT ![t].pc = "done"]
                  ELSE \E q \in differing :
                         procs' = [procs EXCEPT
                            ![t].pc = "raised",
                            ![t].blamed = view[NameRank(q)],
                            ![t].revealed =
                                Raised(MismatchError(expected, view[NameRank(q)],
                                                     messages[q].message))]
       /\ UNCHANGED <<sharingVars, inputs>>

NextValidate ==
    \/ \E t \in DOMAIN procs : ValidateBroadcast(t)
    \/ \E t \in DOMAIN procs : ValidateReceive(t)

SpecValidate == InitValidate /\ [][NextValidate]_vars

(***************************************************************************)
(* test_online_threshold: local0 shares 23, the others receive it, and     *)
(* every party among the reconstructors calls exchange_and_reconstruct     *)
(* with the other reconstructors as other_parties; the rest return.        *)
(***************************************************************************)
\* value_alice = 23
value_alice == 23

\* The sets of reconstructing parties: those of RECONSTRUCTING_PARTIES and
\* the single parties, of at least `threshold` members.
Reconstructors(sch) ==
    {R \in SUBSET PoolNames(sch.n) : R # {} /\ Cardinality(R) >= sch.threshold}

\* if "local<i>" not in reconstructors: return.  inputs.callers are the
\* parties that go on to exchange_and_reconstruct: in the tests, all the
\* reconstructors.
AfterSharing(me) ==
    IF me \in inputs.callers THEN "exchange" ELSE "returned"

InitThreshold ==
    /\ scheme \in {ShamirSecretSharingScheme(NrParties, SSS_TEST_MODULUS, {k}) :
                        k \in 1 .. NrParties}
    /\ IdleSharing
    /\ inputs \in {[reconstructors |-> R, callers |-> R,
                    draws |-> Draws(scheme.modulus)] :
                        R \in Reconstructors(scheme)}
    /\ procs = [t \in PoolNames(NrParties) \X {1} |->
                    [pc |-> IF t[1] = PartyName(0) THEN "share_and_send" ELSE "receive",
                     secret_result |-> NoHandle, shared_value |-> NoHandle,
                     sent |-> {}, revealed |-> NoOutcome]]
    /\ pool = {}

\* alice: scheme.share_and_send("secret_alice", value_alice) up to its first
\* pool.send: share, and the message to the first client.
ThresholdShareAndSend(t) ==
    LET me == t[1]
    IN /\ procs[t].pc = "share_and_send"
       /\ \E rnd \in SampledRandomness(scheme, inputs.draws) :
            LET shared_value == share(scheme, SecretNames[1], value_alice, TRUE, rnd)
            IN \E party \in Unsent(scheme, me, {}) :
                /\ procs' = [procs EXCEPT ![t].shared_value = shared_value,
                                          ![t].sent = {party},
                                          ![t].pc = "send"]
                /\ pool' = pool \cup SendStep(scheme, me, shared_value, party, t[2])
       /\ UNCHANGED <<sharingVars, inputs>>

\* alice: share_and_send resumes in the loop of SecureNumber.send: the
\* pool.send to the next client, or after the last one
\* secret_alice = the handle returned.
ThresholdSend(t) ==
    LET me == t[1]
    IN /\ procs[t].pc = "send"
       /\ IF Unsent(scheme, me, procs[t].sent) # {}
          THEN \E party \in Unsent(scheme, me, procs[t].sent) :
                /\ procs' = [procs EXCEPT ![t].sent = @ \cup {party}]
                /\ pool' = pool \cup SendStep(scheme, me, procs[t].shared_value,
                                              party, t[2])
          ELSE /\ procs' = [procs EXCEPT ![t].secret_result = procs[t].shared_value,
                                         ![t].shared_value = NoHandle,
                                         ![t].sent = {},
                                         ![t].pc = AfterSharing(me)]
               /\ pool' = pool
       /\ UNCHANGED <<sharingVars, inputs>>

\* bob, charlie: secret_alice = await scheme.receive("local0", "secret_alice")
ThresholdReceive(t) ==
    LET me == t[1]
    IN /\ procs[t].pc = "receive"
       /\ \E msg \in recv(pool, PartyName(0), me, SendRecvId(scheme, SecretNames[1])) :
            /\ procs' = [procs EXCEPT
                            ![t].secret_result =
                                from_share(scheme, me, SecretNames[1], msg.message),
                            ![t].pc = AfterSharing(me)]
            /\ pool' = pool \ {msg}
       /\ UNCHANGED <<sharingVars, inputs>>

\* other_parties = other_parties or self.scheme.pool.clients
ExchangeSenders(sch, me, other_parties) ==
    IF other_parties = {} THEN PoolClients(sch.n, me) ELSE other_parties

\* An exchange_and_reconstruct that checks the threshold before it waits
\* for the shares of the named parties.
ExchangeNamedCheckFirst(t) ==
    LET me == t[1]
        handle == procs[t].secret_result
        other_parties == inputs.reconstructors \ {me}
        result == _reconstruct(scheme, me, handle.shares, TRUE, Named(other_parties))
    IN /\ procs[t].pc = "recv_all"
       /\ result.kind = "error"
       /\ procs' = [procs EXCEPT ![t].revealed = result, ![t].pc = "raised"]
       /\ UNCHANGED <<sharingVars, inputs, pool>>


\* The rest of exchange_and_reconstruct(other_parties=...) with a set given:
\* recv_all of the named senders, set_share of each, reconstruct.  The
\* filled slots and the result are each computed once.
ExchangeNamedReceiveAndReconstruct(t) ==
    LET me == t[1]
        handle == procs[t].secret_result
        other_parties == inputs.reconstructors \ {me}
        senders == ExchangeSenders(scheme, me, other_parties)
    IN /\ procs[t].pc = "recv_all"
       /\ \E messages \in
                recv_all(pool, senders, me, ExchangeId(scheme, handle.name)) :
          \E filled \in
                {[k \in 1 .. scheme.n |->
                    IF \E q \in senders : mapping(scheme.n, me)[q] + 1 = k
                    THEN messages[CHOOSE q \in senders :
                                    mapping(scheme.n, me)[q] + 1 = k].message
                    ELSE handle.shares[k]]} :
          \E result \in
                {_reconstruct(scheme, me, filled, TRUE, Named(other_parties))} :
            /\ procs' = [procs EXCEPT
                    ![t].secret_result = SecureNumber(handle.name, filled),
                    ![t].revealed = result,
                    ![t].pc = IF result.kind = "error" THEN "raised" ELSE "done"]
            /\ pool' = pool \ {messages[q] : q \in senders}
       /\ UNCHANGED <<sharingVars, inputs>>

\* The steps of the coroutine of one party.
ThresholdStep(t) ==
    \/ ThresholdShareAndSend(t)
    \/ ThresholdSend(t)
    \/ ThresholdReceive(t)
    \/ Exchange(t)
    \/ ExchangeNamedReceiveAndReconstruct(t)

NextThreshold == \E t \in PoolNames(NrParties) \X {1} : ThresholdStep(t)

SpecThreshold == InitThreshold /\ [][NextThreshold]_vars

(***************************************************************************)
(* The two multiplication paths.  Every party, holding its shares of the   *)
(* secrets, evaluates left * right or awaits scheme.mul(left, right); an   *)
(* operand is one of the handles x, y (1, 2) or the int 7 (0).             *)
(***************************************************************************)
\* The message of the TypeError of mul.
MulTypeError ==
    "TypeError: Multiplication with a constant is a linear operation "
        \o "and does not require additional communication. "
        \o "For this use x * y rather than scheme.mul(x, y)"

\* A check of mul that looks at its first operand only.
mul_rejects_first(value1, value2) == ~IsSecureNumber(value1)

\* if not (isinstance(value1, SecureNumber) and isinstance(value2, SecureNumber))
mul_rejects(value1, value2) ==
    ~(IsSecureNumber(value1) /\ IsSecureNumber(value2))

Operand(held, i) == IF i = 0 THEN PyInt(7) ELSE held[i]

\* The calls: an int times an int is no operation on handles.
DispatchCalls ==
    {c \in [via : {"operator", "mul"}, left : 0 .. 2, right : 0 .. 2] :
        c.via = "operator" => (c.left # 0 \/ c.right # 0)}

InitDispatch ==
    /\ scheme = ShamirSecretSharingScheme(NrParties, SSS_TEST_MODULUS, {})
    /\ IdleSharing
    /\ inputs \in {[values |-> v, draws |-> Draws(scheme.modulus),
                    coefficients |-> [i \in 1 .. 3 |-> rnd], f |-> 0,
                    chains |-> << <<IF c.left = 0 THEN 1 ELSE c.left,
                                    IF c.right = 0 THEN 1 ELSE c.right>> >>,
                    reveal |-> FALSE, call |-> c] :
                        v \in Triplets,
                        rnd \in SampledRandomness(scheme, {1}),
                        c \in DispatchCalls}
    /\ procs = [t \in PoolNames(NrParties) \X {1} |->
                    LET held == HeldSecrets(scheme, t[1], inputs.values,
                                            inputs.coefficients)
                    IN Coroutine("call", held, NoHandle, 2)]
    /\ pool = {}

\* left * right: Python gives the call to the handle among the operands.
CallOperator(t) ==
    LET me == t[1]
        left == Operand(procs[t].secrets, inputs.call.left)
        right == Operand(procs[t].secrets, inputs.call.right)
        product == Times(scheme, me, left, right)
    IN /\ procs[t].pc = "call"
       /\ inputs.call.via = "operator"
       /\ procs' = [procs EXCEPT
                      ![t].pc = IF IsSecureNumber(product) THEN "done" ELSE "raised",
                      ![t].secret_result = IF IsSecureNumber(product) THEN product ELSE @,
                      ![t].revealed = IF IsSecureNumber(product) THEN @ ELSE product]
       /\ UNCHANGED <<sharingVars, inputs, pool>>

\* await scheme.mul(left, right), up to the call of _mul_encoded; the first
\* operand is kept in secret_result, where the later steps of mul read it.
CallMul(t) ==
    LET left == Operand(procs[t].secrets, inputs.call.left)
        right == Operand(procs[t].secrets, inputs.call.right)
    IN /\ procs[t].pc = "call"
       /\ inputs.call.via = "mul"
       /\ IF mul_rejects(left, right)
          THEN procs' = [procs EXCEPT ![t].pc = "raised",
                                      ![t].revealed = Raised(MulTypeError)]
          ELSE procs' = [procs EXCEPT ![t].pc = "mul",
                                      ![t].secret_result = left]
       /\ UNCHANGED <<sharingVars, inputs, pool>>

NextDispatch ==
    \/ \E t \in DOMAIN procs : CallOperator(t)
    \/ \E t \in DOMAIN procs : CallMul(t)
    \/ \E t \in DOMAIN procs : MulShareAndSend(t)
    \/ \E t \in DOMAIN procs : MulSend(t)
    \/ \E t \in DOMAIN procs : MulReceive(t)

SpecDispatch == InitDispatch /\ [][NextDispatch]_vars

(***************************************************************************)
(* The same calls under the additive scheme, which has no threshold: every *)
(* party of a set shares or receives the secret and then calls             *)
(* exchange_and_reconstruct with the rest of the set as other_parties.     *)
(***************************************************************************)
InitSubsetAdditive ==
    /\ scheme = AdditiveSecretSharingScheme(NrParties, SSS_TEST_MODULUS)
    /\ IdleSharing
    /\ inputs \in {[reconstructors |-> R, callers |-> R,
                    draws |-> Draws(scheme.modulus)] :
                        R \in Reconstructors(scheme)}
    /\ procs = [t \in PoolNames(NrParties) \X {1} |->
                    [pc |-> IF t[1] = PartyName(0) THEN "share_and_send" ELSE "receive",
                     secret_result |-> NoHandle, shared_value |-> NoHandle,
                     sent |-> {}, revealed |-> NoOutcome]]
    /\ pool = {}

SpecSubsetAdditive == InitSubsetAdditive /\ [][NextThreshold]_vars


(***************************************************************************)
(* Repeated calls of reconstruct on one handle of a scheme instance that   *)
(* has cached no property yet.  inputs counts the calls and keeps the call *)
(* before the last one.                                                    *)
(***************************************************************************)
MaxCalls == 2

InitRepeat ==
    /\ scheme \in Schemes
    /\ local \in PoolNames(scheme.n)
    /\ secret \in 0 .. scheme.modulus - 1
    /\ shares = <<>>
    /\ outcome = NotCalled
    /\ inputs = [calls |-> 0, previous |-> NotCalled]
    /\ procs = <<>>
    /\ pool = {}

\* SecureNumber.reconstruct(apply_encoding, other_parties), called again
ReconstructAgain ==
    /\ shares # <<>>
    /\ inputs.calls < MaxCalls
    /\ \E apply_encoding \in BOOLEAN :
       \E other_parties \in
            {None} \cup {Named(S) : S \in SUBSET PoolClients(scheme.n, local)} :
          LET call == reconstruct(scheme, local, shares, apply_encoding,
                                  other_parties)
          IN /\ outcome' = [done |-> TRUE,
                            apply_encoding |-> apply_encoding,
                            other_parties |-> other_parties,
                            result |-> call.result]
             /\ scheme' = call.scheme
             /\ shares' = call._shares
    /\ inputs' = [calls |-> inputs.calls + 1, previous |-> outcome]
    /\ UNCHANGED <<local, secret, procs, pool>>

NextRepeat == Share \/ ReconstructAgain

SpecRepeat == InitRepeat /\ [][NextRepeat]_vars


(***************************************************************************)
(* share_and_send_each: every party shares its own secret under            *)
(* f"{name}_{pool.name}", sends each client its share, takes the shares of *)
(* the others and returns the handles sorted by name; then the parties add *)
(* the handles and reveal the sum.                                         *)
(***************************************************************************)
\* f"{name}_{party}"
ShareEachName(name, party) == name \o "_" \o party

\* f"{self.__class__.__name__}_share_each_{name}"
ShareEachId(sch, name) == ClassName(sch) \o "_share_each_" \o name

\* The name argument of share_and_send_each in the runs.
EachName == "x"

InitShareEach ==
    /\ scheme \in {ShamirSecretSharingScheme(NrParties, SSS_TEST_MODULUS, {}),
                   AdditiveSecretSharingScheme(NrParties, SSS_TEST_MODULUS)}
    /\ IdleSharing
    /\ inputs \in {[values |-> v, draws |-> Draws(scheme.modulus),
                    coefficients |-> <<>>, f |-> 0,
                    chains |-> <<>>, reveal |-> TRUE] : v \in Triplets}
    /\ procs = [t \in PoolNames(NrParties) \X {1} |->
                    Coroutine("share_each", <<NoHandle, NoHandle, NoHandle>>,
                              NoHandle, 1)]
    /\ pool = {}

\* The message of share_and_send_each to one client.
ShareEachMessage(sch, me, secret_local, party, origin) ==
    Message(me, party, ShareEachId(sch, EachName),
            get_share(sch, me, secret_local.shares, party), origin)

\* share_and_send_each up to its first pool.send: share, and the message to
\* the first client.
ShareEachSend(t) ==
    LET me == t[1]
        i == mapping(scheme.n, me)[me] + 1
    IN /\ procs[t].pc = "share_each"
       /\ \E rnd \in SampledRandomness(scheme, inputs.draws) :
            LET secret_local == share(scheme, ShareEachName(EachName, me),
                                      inputs.values[i], TRUE, rnd)
            IN \E party \in Unsent(scheme, me, {}) :
                /\ procs' = [procs EXCEPT ![t].shared_value = secret_local,
                                          ![t].sent = {party},
                                          ![t].pc = "share_each_send"]
                /\ pool' = pool \cup
                     {ShareEachMessage(scheme, me, secret_local, party, t[2])}
       /\ UNCHANGED <<sharingVars, inputs>>

\* share_and_send_each resumes in its loop: the pool.send to the next
\* client, or after the last one the call of recv_all.
ShareEachSendNext(t) ==
    LET me == t[1]
    IN /\ procs[t].pc = "share_each_send"
       /\ IF Unsent(scheme, me, procs[t].sent) # {}
          THEN \E party \in Unsent(scheme, me, procs[t].sent) :
                /\ procs' = [procs EXCEPT ![t].sent = @ \cup {party}]
                /\ pool' = pool \cup
                     {ShareEachMessage(scheme, me, procs[t].shared_value,
                                       party, t[2])}
          ELSE /\ procs' = [procs EXCEPT ![t].sent = {},
                                         ![t].pc = "share_each_recv"]
               /\ pool' = pool
       /\ UNCHANGED <<sharingVars, inputs>>

\* share_and_send_each from recv_all: from_share(f"{name}_{party}", share,
\* self, party) of every message, and the handles sorted by name.
ShareEachReceive(t) ==
    LET me == t[1]
        clients == PoolClients(scheme.n, me)
    IN /\ procs[t].pc = "share_each_recv"
       /\ \E messages \in recv_all(pool, clients, me, ShareEachId(scheme, EachName)) :
            /\ procs' = [procs EXCEPT
                    ![t].secrets =
                        [k \in 1 .. scheme.n |->
                            IF k = mapping(scheme.n, me)[me] + 1
                            THEN procs[t].shared_value
                            ELSE LET party == CHOOSE q \in clients :
                                                mapping(scheme.n, me)[q] + 1 = k
                                 IN from_share_owner(scheme, me,
                                        ShareEachName(EachName, party),
                                        messages[party].message,
                                        OwnerName(party))],
                    ![t].shared_value = NoHandle,
                    ![t].pc = "sum"]
            /\ pool' = pool \ {messages[q] : q \in clients}
       /\ UNCHANGED <<sharingVars, inputs>>

\* secret_result = secrets[0] + secrets[1] + secrets[2]
SumOfEach(t) ==
    /\ procs[t].pc = "sum"
    /\ procs' = [procs EXCEPT
                    ![t].secret_result =
                        Eval(scheme, t[1], Add(Add(Arg(1), Arg(2)), Arg(3)),
                             procs[t].secrets),
                    ![t].pc = "exchange"]
    /\ UNCHANGED <<sharingVars, inputs, pool>>

NextShareEach ==
    \/ \E t \in DOMAIN procs : ShareEachSend(t)
    \/ \E t \in DOMAIN procs : ShareEachSendNext(t)
    \/ \E t \in DOMAIN procs : ShareEachReceive(t)
    \/ \E t \in DOMAIN procs : SumOfEach(t)
    \/ \E t \in DOMAIN procs : Exchange(t)
    \/ \E t \in DOMAIN procs : ExchangeReceiveAndReconstruct(t)

SpecShareEach == InitShareEach /\ [][NextShareEach]_vars


(***************************************************************************)
(* test_online_threshold_with_insufficient_parties: the reconstructors are *)
(* fewer than the threshold.  Of the reconstructors, the callers go on to  *)
(* exchange_and_reconstruct with the other reconstructors as               *)
(* other_parties; a reconstructor that is no caller returns after the      *)
(* sharing and sends no share of its own.                                  *)
(***************************************************************************)
InsufficientReconstructors(sch) ==
    {R \in SUBSET PoolNames(sch.n) : R # {} /\ Cardinality(R) < sch.threshold}

InitInsufficient ==
    /\ scheme \in {ShamirSecretSharingScheme(NrParties, SSS_TEST_MODULUS, {k}) :
                        k \in 1 .. NrParties}
    /\ IdleSharing
    /\ inputs \in UNION {{[reconstructors |-> R, callers |-> A,
                            draws |-> Draws(scheme.modulus)] : A \in SUBSET R} :
                                R \in InsufficientReconstructors(scheme)}
    /\ procs = [t \in PoolNames(NrParties) \X {1} |->
                    [pc |-> IF t[1] = PartyName(0) THEN "share_and_send" ELSE "receive",
                     secret_result |-> NoHandle, shared_value |-> NoHandle,
                     sent |-> {}, revealed |-> NoOutcome]]
    /\ pool = {}

SpecInsufficient == InitInsufficient /\ [][NextThreshold]_vars


(***************************************************************************)
(* A Shamir scheme of n parties is constructed, with or without a          *)
(* threshold argument, and _mul_encoded is called on it with or without a  *)
(* resharing id; outcome.result keeps what the checks at its head raise.   *)
(***************************************************************************)
MaxParties == 8

InitDefaultMul ==
    /\ scheme = NotConstructed
    /\ local = PartyName(0)
    /\ inputs \in {[n |-> n, modulus |-> m, threshold |-> thr,
                    resharing_id |-> id] :
                        n \in 1 .. MaxParties, m \in {MaxMod, SSS_TEST_MODULUS},
                        thr \in AnyThresholdArgs(MaxN), id \in ResharingIdArgs}
    /\ secret = 0
    /\ shares = <<>>
    /\ outcome = NotCalled
    /\ procs = NoOutcome
    /\ pool = {}

\* The head of _mul_encoded on the constructed scheme.
MulEncodedChecks ==
    /\ scheme # NotConstructed
    /\ ~outcome.done
    /\ outcome' = [outcome EXCEPT
                        !.done = TRUE,
                        !.result = MulPreconditions(scheme, inputs.resharing_id)]
    /\ UNCHANGED <<scheme, local, secret, shares, protocolVars>>

NextDefaultMul == Construct \/ MulEncodedChecks

SpecDefaultMul == InitDefaultMul /\ [][NextDefaultMul]_vars


(***************************************************************************)
(* reconstruct before exchange: every party shares its secret, receives    *)
(* the other two and applies a linear function, and then calls             *)
(* reconstruct(), without exchange, on a handle it received or on the      *)
(* handle it computed.                                                     *)
(***************************************************************************)
\* The functions applied in these runs: x + y and -x + 2 * y - (z + 1).
EarlyFunctions == {1, 10}

InitEarly ==
    /\ scheme \in {ShamirSecretSharingScheme(NrParties, SSS_TEST_MODULUS, {}),
                   AdditiveSecretSharingScheme(NrParties, SSS_TEST_MODULUS)}
    /\ IdleSharing
    /\ inputs \in {[values |-> v, draws |-> Draws(scheme.modulus),
                    coefficients |-> <<>>, f |-> f,
                    chains |-> <<>>, reveal |-> TRUE] :
                        v \in Triplets, f \in EarlyFunctions}
    /\ procs = [t \in PoolNames(NrParties) \X {1} |->
                    Coroutine("share_and_send", <<NoHandle, NoHandle, NoHandle>>,
                              NoHandle, 1)]
    /\ pool = {}

\* The handles of the secrets that party `me` received from the others.
ReceivedHandles(t) ==
    {procs[t].secrets[j] : j \in (1 .. 3) \ {mapping(scheme.n, t[1])[t[1]] + 1}}

\* handle.reconstruct() in place of handle.exchange_and_reconstruct()
ReconstructEarly(t) ==
    /\ procs[t].pc = "exchange"
    /\ \E handle \in ReceivedHandles(t) \cup {procs[t].secret_result} :
         LET result == _reconstruct(scheme, t[1], handle.shares, TRUE, None)
         IN procs' = [procs EXCEPT
                        ![t].secret_result = handle,
                        ![t].revealed = result,
                        ![t].pc = IF result.kind = "error" THEN "raised" ELSE "done"]
    /\ UNCHANGED <<sharingVars, inputs, pool>>

NextEarly ==
    \/ \E t \in DOMAIN procs : ShareAndSend(t)
    \/ \E t \in DOMAIN procs : Send(t)
    \/ \E t \in DOMAIN procs : Receive(t)
    \/ \E t \in DOMAIN procs : Calculate(t)
    \/ \E t \in DOMAIN procs : ReconstructEarly(t)

SpecEarly == InitEarly /\ [][NextEarly]_vars


(***************************************************************************)
(* Properties of sharing and reconstruction.                               *)
(***************************************************************************)
RECURSIVE Gcd(_, _)
Gcd(a, b) == IF b = 0 THEN a ELSE Gcd(b, a % b)

Abs(a) == IF a < 0 THEN -a ELSE a

\* The modulus has no factor in common with any of 2 .. n.
CoprimeToPoints(sch) == \A k \in 2 .. sch.n : Gcd(sch.modulus, k) = 1

ValidShamir == scheme.kind = "shamir" /\ 1 <= scheme.threshold /\ scheme.threshold <= scheme.n

RawCall(other_parties) ==
    /\ outcome.done
    /\ ~outcome.apply_encoding
    /\ outcome.other_parties = other_parties

\* C1: a Shamir sharing (1 <= t <= n, any modulus, any coefficients) of a raw
\* secret s, reconstructed raw from all n shares with the cached weights
\* (other_parties = None), gives s.
C1_ShamirFullSet ==
    (ValidShamir /\ RawCall(None)) => outcome.result = Returned(secret)

C1_Witness ==
    /\ ValidShamir /\ RawCall(None)
    /\ scheme.threshold >= 2 /\ scheme.n = 3 /\ scheme.modulus = 4
    /\ secret = 3 /\ shares[1] # shares[2]
    /\ outcome.result = Returned(3)

\* The contributors of a named reconstruct call: other_parties plus the local party.
NamedCall ==
    /\ outcome.done
    /\ ~outcome.apply_encoding
    /\ outcome.other_parties.named

ContributorIndices ==
    {mapping(scheme.n, local)[p] : p \in outcome.other_parties.parties \cup {local}}

DenominatorOf(i) ==
    (i + 1) * _prod(SetToSeq({j - i : j \in ContributorIndices \ {i}}))

\* Products of distinct differences: j - i is distinct for distinct j.
DenominatorsInvertible ==
    \A i \in ContributorIndices : Gcd(scheme.modulus, Abs(DenominatorOf(i))) = 1

\* C2 (as claimed): a named reconstruction with at least t contributors
\* succeeds and returns s.
C2_SubsetReturnsSecret ==
    (ValidShamir /\ NamedCall /\ Cardinality(ContributorIndices) >= scheme.threshold)
        => outcome.result = Returned(secret)

\* C2 (amended): a named reconstruction with at least t contributors returns s
\* when every contributor's denominator (i+1) * PROD (j-i) is invertible modulo
\* the modulus, and raises (no inverse) when one is not.
C2_SubsetReturnsSecretIfInvertible ==
    (ValidShamir /\ NamedCall /\ Cardinality(ContributorIndices) >= scheme.threshold)
        => IF DenominatorsInvertible
           THEN outcome.result = Returned(secret)
           ELSE outcome.result.kind = "error"

C2_Witness ==
    /\ ValidShamir /\ NamedCall
    /\ scheme.n = 3 /\ scheme.threshold = 2 /\ scheme.modulus = 5
    /\ ContributorIndices = {0, 2}
    /\ secret = 3 /\ shares[1] # shares[3]
    /\ outcome.result = Returned(3)

\* C3 (as claimed): a named reconstruction with fewer than t contributors,
\* counting the local party, raises the threshold error and returns nothing.
C3_ThresholdEnforced ==
    (/\ ValidShamir
     /\ outcome.done
     /\ outcome.other_parties.named
     /\ Cardinality(outcome.other_parties.parties) + 1 < scheme.threshold)
        => outcome.result =
              Raised(ThresholdError(scheme.threshold,
                                    Cardinality(outcome.other_parties.parties) + 1))

\* The view of coalition K (a set of indices) of the current shares can also
\* arise from any other raw secret.
ViewIndependentOfSecret(K) ==
    \A s2 \in 0 .. scheme.modulus - 1 :
        \E rnd2 \in Randomness(scheme) :
            \A i \in K : _share_secret(scheme, s2, rnd2)[i + 1] = shares[i + 1]

Coalitions(size) == {K \in SUBSET (0 .. scheme.n - 1) : Cardinality(K) <= size}

\* C7 (as claimed): for every modulus the constructor accepts, what fewer
\* than t parties see of a Shamir sharing does not depend on the secret.
C7_ShamirSecrecy ==
    (ValidShamir /\ shares # <<>> /\ ~outcome.done)
        => \A K \in Coalitions(scheme.threshold - 1) : ViewIndependentOfSecret(K)

\* C7 (amended): the same, for a modulus that has no factor in common with
\* any of 2 .. n (for t = 1 no party set is below the threshold but the
\* empty one).
C7_ShamirSecrecyCoprime ==
    (/\ ValidShamir /\ shares # <<>> /\ ~outcome.done
     /\ (scheme.threshold = 1 \/ CoprimeToPoints(scheme)))
        => \A K \in Coalitions(scheme.threshold - 1) : ViewIndependentOfSecret(K)

C7_Witness ==
    /\ ValidShamir /\ shares # <<>>
    /\ scheme.n = 3 /\ scheme.threshold = 3 /\ scheme.modulus = 5
    /\ secret = 2 /\ shares[1] # shares[2]
    /\ ViewIndependentOfSecret({0, 2})

\* C24: under the additive scheme with n >= 2, what any n - 1 or fewer
\* parties see of a sharing can arise, for some choice of the random
\* values, from every other raw secret as well; so can a single share.
C24_AdditiveSecrecy ==
    (scheme.kind = "additive" /\ scheme.n >= 2 /\ shares # <<>>)
        => \A K \in Coalitions(scheme.n - 1) : ViewIndependentOfSecret(K)

\* Three shares of 4 modulo 5: the first two parties together, and the
\* last one alone, see what they could see of any secret.
C24_Witness ==
    /\ scheme.kind = "additive" /\ scheme.n = 3 /\ scheme.modulus = 5
    /\ secret = 4 /\ shares = <<2, 4, 3>>
    /\ ViewIndependentOfSecret({0, 1})
    /\ ViewIndependentOfSecret({2})
    /\ ~ViewIndependentOfSecret({0, 1, 2})

\* C8: the n additive shares of a raw secret s sum to s modulo the modulus,
\* and reconstructing them raw with no subset named gives s.
C8_AdditiveCorrect ==
    (scheme.kind = "additive" /\ shares # <<>>)
        => /\ Len(shares) = scheme.n
           /\ SumSeq(shares) % scheme.modulus = secret
           /\ RawCall(None) => outcome.result = Returned(secret)

C8_Witness ==
    /\ scheme.kind = "additive" /\ RawCall(None)
    /\ scheme.n = 3 /\ scheme.modulus = 5
    /\ secret = 1 /\ shares[2] = 4 /\ shares[3] = 3
    /\ outcome.result = Returned(1)

(***************************************************************************)
(* Properties of the protocol runs.                                        *)
(***************************************************************************)
\* The product of the encoded values that a chain of operands names.
RECURSIVE ChainProduct(_, _)
ChainProduct(chain, values) ==
    IF chain = <<>> THEN 1
    ELSE encode(scheme, values[Head(chain)]).val * ChainProduct(Tail(chain), values)

ExpectedProduct ==
    decode(scheme, ChainProduct(inputs.chains[1], inputs.values) % scheme.modulus)

MulPossible == 2 * scheme.threshold - 1 <= scheme.n

\* C4: with 2t-1 <= n and consistent shares of the operands at all parties,
\* every party that runs the chain of mul calls and exchange_and_reconstruct
\* obtains the product of the operands modulo the modulus, in the signed
\* range, whatever the resharing coefficients and the interleaving; no mul
\* call raises.
C4_MulCorrect ==
    MulPossible =>
        \A t \in DOMAIN procs :
            /\ procs[t].pc # "raised"
            /\ procs[t].pc = "done" => procs[t].revealed = Returned(ExpectedProduct)

C4_Witness ==
    /\ scheme.threshold = 2
    /\ inputs.values = <<17, 29, 61>>
    /\ inputs.chains = <<INPUT_MULTIPLICATIONS[4]>>
    /\ inputs.coefficients[1] # inputs.coefficients[2]
    /\ \A t \in DOMAIN procs :
          procs[t].pc = "done" /\ procs[t].revealed = Returned(-149)
    /\ \E t \in DOMAIN procs : \E c \in procs[t].consumed : c.message > 0

\* C5 (as claimed): two mul calls of a party that are in flight together and
\* multiply different operands use different resharing ids.
C5_DistinctResharingIds ==
    \A j, k \in DOMAIN procs :
        (/\ j # k
         /\ procs[j].call # NoCall
         /\ procs[k].call # NoCall
         /\ <<procs[j].call.value1, procs[j].call.value2>>
                # <<procs[k].call.value1, procs[k].call.value2>>)
            => procs[j].call.resharing_id # procs[k].call.resharing_id

\* The resharing id of the k-th concurrent multiplication.
ResharingIdOf(k) ==
    MulName(SecretNames[inputs.chains[k][1]], SecretNames[inputs.chains[k][2]])

RECURSIVE SumOfMessages(_)
SumOfMessages(C) ==
    IF C = {} THEN 0
    ELSE LET c == CHOOSE c \in C : TRUE
         IN c.message + SumOfMessages(C \ {c})

\* The resharing of a coroutine: the handle that its share_and_send is
\* sending, or has returned.
ResharingOf(t) ==
    IF procs[t].pc = "mul_send" THEN procs[t].shared_value ELSE procs[t].resharing

ResharingIdsDistinct ==
    \A j, k \in 1 .. Len(inputs.chains) : j # k => ResharingIdOf(j) # ResharingIdOf(k)

\* C6: when two multiplications with distinct resharing ids run concurrently
\* among the same parties, a party's multiplication k consumes only
\* fragments that were reshared for multiplication k, one of every peer, and
\* its product share is the sum of the n fragments of multiplication k: its
\* own and those the peers reshared for it.
C6_NoCrossDelivery ==
    ResharingIdsDistinct =>
        \A t \in DOMAIN procs :
            LET me == t[1]
                k == t[2]
            IN /\ \A c \in procs[t].consumed : c.origin = k
               /\ procs[t].pc = "mul_receive" =>
                    procs[t].result =
                        get_local_share(scheme, me, procs[t].resharing.shares)
                            + SumOfMessages(procs[t].consumed)
               /\ procs[t].pc = "done" =>
                    /\ {c.sender : c \in procs[t].consumed}
                            = PoolClients(scheme.n, me)
                    /\ Cardinality(procs[t].consumed) = scheme.n - 1
                    /\ get_local_share(scheme, me, procs[t].secret_result.shares)
                            = SumSeq([i \in 1 .. scheme.n |->
                                        get_share(scheme, me,
                                                  ResharingOf(<<PartyName(i - 1), k>>)
                                                        .shares,
                                                  me)])

C6_Witness ==
    /\ ResharingIdsDistinct
    /\ inputs.draws = {SSS_TEST_MODULUS - 1}
    /\ inputs.values = <<17, 29, 61>>
    /\ \A t \in DOMAIN procs : procs[t].pc = "done"
    /\ \A p \in PoolNames(scheme.n) :
          procs[<<p, 1>>].secret_result.shares # procs[<<p, 2>>].secret_result.shares

\* The linear function of the run applied to the plain values.
ExpectedCalculation ==
    decode(scheme,
           Eval(scheme, PartyName(0), LINEAR_FUNCTIONS[inputs.f],
                [i \in 1 .. 3 |-> PyInt(inputs.values[i])]).value % scheme.modulus)

Calculated(t) == procs[t].pc \in {"exchange", "recv_all", "done"}

\* C9: under the Shamir scheme every party that applies the linear function
\* to its handles of x, y, z and calls exchange_and_reconstruct obtains
\* f(x, y, z) modulo the modulus, in the signed range; for f = x + 7 and
\* f = 7 + x the local share of every party is its share of x plus 7.
C9_ShamirLinear ==
    scheme.kind = "shamir" =>
        \A t \in DOMAIN procs :
            /\ procs[t].pc = "done" =>
                    procs[t].revealed = Returned(ExpectedCalculation)
            /\ (Calculated(t) /\ inputs.f \in {2, 3}) =>
                    get_local_share(scheme, t[1], procs[t].secret_result.shares)
                        = (get_local_share(scheme, t[1], procs[t].secrets[1].shares) + 7)
                            % scheme.modulus

C9_Witness ==
    /\ scheme.kind = "shamir"
    /\ inputs.values = <<97, -314, 41>>
    /\ inputs.f = 10
    /\ \A t \in DOMAIN procs :
          procs[t].pc = "done" /\ procs[t].revealed = Returned(-767)
    /\ \E t \in DOMAIN procs :
          procs[t].secrets[1].shares # procs[t].secrets[2].shares

\* C10: under the additive scheme every party that applies the linear
\* function to its handles of x, y, z and calls exchange_and_reconstruct
\* obtains f(x, y, z) modulo the modulus, in the signed range.
C10_AdditiveLinear ==
    scheme.kind = "additive" =>
        \A t \in DOMAIN procs :
            procs[t].pc = "done" => procs[t].revealed = Returned(ExpectedCalculation)

\* Modulus 1679, secrets 17, 29, 61: x + y reveals 46 at every party.
C10_Witness ==
    /\ scheme.kind = "additive"
    /\ scheme.modulus = 1679
    /\ inputs.values = <<17, 29, 61>>
    /\ inputs.f = 1
    /\ \A t \in DOMAIN procs :
          procs[t].pc = "done" /\ procs[t].revealed = Returned(46)
    /\ \E t \in DOMAIN procs : procs[t].secrets[1].shares[2] # 0

(***************************************************************************)
(* Properties of the encoding.                                             *)
(***************************************************************************)
InRange(sch, v) == min_value(sch) <= v /\ v <= max_value(sch)

\* Every raw value in [0, modulus) is the encoding of exactly one value of
\* the supported range (checked value by value for the moduli up to MaxMod),
\* and the supported range has as many values as [0, modulus).
EncodeIsBijection(sch) ==
    /\ Cardinality(min_value(sch) .. max_value(sch))
            = Cardinality(0 .. sch.modulus - 1)
    /\ sch.modulus <= MaxMod =>
         \A r \in 0 .. sch.modulus - 1 :
            Cardinality({v \in min_value(sch) .. max_value(sch) :
                            encode(sch, v) = Returned(r)}) = 1

\* C11: in both schemes and for every modulus, encode of a value in
\* [min_value, max_value] returns a value in [0, modulus) that decode maps
\* back to the value; encode of a value outside the range raises; encode is
\* a bijection from [min_value, max_value] onto [0, modulus).
C11_EncodingRoundTrip ==
    /\ procs.encoded # NoOutcome =>
         IF InRange(scheme, inputs.value)
         THEN /\ procs.encoded.kind = "value"
              /\ procs.encoded.val \in 0 .. scheme.modulus - 1
         ELSE procs.encoded.kind = "error"
    /\ procs.decoded # NoOutcome => procs.decoded = Returned(inputs.value)
    /\ EncodeIsBijection(scheme)

\* An even modulus: max_value = 2 is encoded as 2 and decoded as 2.
C11_Witness ==
    /\ scheme.kind = "additive"
    /\ scheme.modulus = 4
    /\ inputs.value = max_value(scheme)
    /\ procs.encoded = Returned(2)
    /\ procs.decoded = Returned(2)

(***************************************************************************)
(* Properties of construction.                                             *)
(***************************************************************************)
\* C12 (as claimed): the constructor rejects a threshold outside [1, n], so
\* every constructed Shamir scheme has 1 <= threshold <= n.
C12_ThresholdChecked ==
    scheme # NotConstructed =>
        1 <= scheme.threshold /\ scheme.threshold <= scheme.n

(***************************************************************************)
(* Properties of the preconditions of multiplication.                      *)
(***************************************************************************)
MulPreconditionFails == ~MulPossible \/ inputs.resharing_id = {}

\* C13: when 2 * threshold - 1 > n, and likewise when resharing_id is None,
\* _mul_encoded raises in the step of the call: no party sends a fragment or
\* waits for one, and the handles of the operands keep their shares; when
\* both preconditions hold no call raises.
C13_MulFailsFast ==
    \A t \in DOMAIN procs :
        IF MulPreconditionFails
        THEN /\ procs[t].pc \in {"mul_encoded", "raised"}
             /\ pool = {}
             /\ procs[t].resharing = NoHandle
             /\ procs[t].shared_value = NoHandle
             /\ procs[t].secrets =
                    HeldSecrets(scheme, t[1], inputs.values, inputs.coefficients)
             /\ procs[t].pc = "raised" =>
                    procs[t].revealed =
                        IF ~MulPossible
                        THEN Raised(MulError(scheme))
                        ELSE Raised(ResharingIdError)
        ELSE procs[t].pc # "raised"

\* Threshold 3 of 3 parties with a resharing id: every call has raised.
C13_Witness ==
    /\ scheme.threshold = 3
    /\ inputs.resharing_id # {}
    /\ \A t \in DOMAIN procs :
          procs[t].pc = "raised" /\ procs[t].revealed = Raised(MulError(scheme))

(***************************************************************************)
(* Properties of the partial weights.                                      *)
(***************************************************************************)
IsPrime(p) == p >= 2 /\ \A d \in 2 .. p - 1 : p % d # 0

\* The reconstruct call named a set of parties and failed on mod_inv.
FailedOnInverse ==
    /\ outcome.done
    /\ outcome.other_parties.named
    /\ outcome.result = Raised("ZeroDivisionError: inverse does not exist")

\* C14 (as claimed): with a prime modulus, a Shamir reconstruction from a
\* named set of contributors never fails on the modular inverse.
C14_InverseDefinedForPrime ==
    (scheme.kind = "shamir" /\ IsPrime(scheme.modulus)) => ~FailedOnInverse

\* C14 (amended): with a prime modulus larger than n, a Shamir
\* reconstruction from a named set of contributors never fails on the
\* modular inverse, and every contributor's denominator is invertible.
C14_InverseDefinedForPrimeAboveN ==
    (scheme.kind = "shamir" /\ IsPrime(scheme.modulus) /\ scheme.modulus > scheme.n)
        => /\ ~FailedOnInverse
           /\ (outcome.done /\ outcome.other_parties.named) => DenominatorsInvertible

\* Modulus 5, three parties, all three contributing by name.
C14_Witness ==
    /\ scheme.kind = "shamir" /\ scheme.modulus = 5 /\ scheme.n = 3
    /\ outcome.done
    /\ outcome.other_parties = Named(PoolClients(scheme.n, local))
    /\ outcome.result.kind = "value"
    /\ \E i \in ContributorIndices : DenominatorOf(i) < 0

(***************************************************************************)
(* Properties of a scheme without a pool.                                  *)
(***************************************************************************)
NoCommunicationErrors ==
    {pool_property(NoPool), get_local_share_check(NoPool)}

\* The errors of the domain and of validation.
DomainErrors ==
    {Raised(NoSharesError), pool_not_configured(NoPool),
     Raised("ValueError: outside supported range"),
     Raised("ValueError: This is not a threshold scheme"),
     Raised("ZeroDivisionError: inverse does not exist"),
     Raised(MulSyncError), Raised(ResharingIdError), Raised(PartiesError)}

\* C15: on a scheme without a pool, share, encode, decode and reconstruct
\* over the shares present (no subset named) succeed and give back the
\* secret, while send, share_and_send, receive, exchange,
\* exchange_and_reconstruct, validate_identifiers and mul raise
\* NoCommunicationError, which is none of the domain errors, send nothing
\* and leave the shares as they were.
C15_NoPool ==
    local = NoPool =>
        /\ pool = {}
        /\ procs # NoOperation =>
            /\ shares = procs.before
            /\ procs.op \in NetworkOperations =>
                    /\ procs.result \in NoCommunicationErrors
                    /\ procs.result \notin DomainErrors
            /\ procs.op = "encode" => procs.result = Returned(secret)
            /\ procs.op = "decode" =>
                    /\ procs.result.kind = "value"
                    /\ encode(scheme, procs.result.val) = Returned(secret)
            /\ procs.op = "reconstruct" =>
                    procs.result = Returned(decode(scheme, secret))

C15_Witness ==
    /\ local = NoPool
    /\ scheme.kind = "shamir" /\ scheme.n = 3 /\ scheme.modulus = 5
    /\ shares # <<>> /\ shares[1] # shares[2]
    /\ procs.op = "exchange_and_reconstruct"
    /\ procs.result = pool_property(NoPool)

(***************************************************************************)
(* Properties of share distribution and exchange.                          *)
(***************************************************************************)
\* The slot (from 1) of party p in every handle.
SlotOf(p) == mapping(scheme.n, p)[p] + 1

\* The messages in flight from P to Q that carry P's secret.
SecretInFlight(P, Q) ==
    {m \in pool : /\ m.sender = P
                  /\ m.receiver = Q
                  /\ m.msg_id = SendRecvId(scheme, SecretNames[SlotOf(P)])}

\* The peers that the loop of P's share_and_send has reached.
SentTo(P) ==
    IF procs[<<P, 1>>].pc = "share_and_send" THEN {}
    ELSE IF procs[<<P, 1>>].pc = "send"
         THEN procs[<<P, 1>>].sent
         ELSE PoolClients(scheme.n, P)

\* C16: in P's share_and_send, for every peer Q that the loop of send has
\* reached (every peer once the call has returned) exactly one message
\* from P to Q is in flight or has been received by Q; it carries the slot
\* of Q in P's handle and nothing else, and the handle that Q's receive
\* returns holds that value at Q's own slot and the placeholder of
\* empty_shares at every other slot.  P sends nothing before, and nothing to
\* itself.
C16_ShareDistribution ==
    \A P \in PoolNames(scheme.n) :
        LET handle == IF procs[<<P, 1>>].pc = "send"
                      THEN procs[<<P, 1>>].shared_value
                      ELSE procs[<<P, 1>>].secrets[SlotOf(P)]
        IN /\ SecretInFlight(P, P) = {}
           /\ \A Q \in PoolClients(scheme.n, P) :
                LET received == procs[<<Q, 1>>].secrets[SlotOf(P)]
                IN IF Q \notin SentTo(P)
                   THEN SecretInFlight(P, Q) = {} /\ received = NoHandle
                   ELSE /\ Cardinality(SecretInFlight(P, Q))
                                = (IF received = NoHandle THEN 1 ELSE 0)
                        /\ \A m \in SecretInFlight(P, Q) :
                                m.message = get_share(scheme, P, handle.shares, Q)
                        /\ received # NoHandle =>
                                /\ received.name = handle.name
                                /\ \A k \in 1 .. scheme.n :
                                      received.shares[k] =
                                        IF k = SlotOf(Q)
                                        THEN get_share(scheme, P, handle.shares, Q)
                                        ELSE empty_shares(scheme)[k]

\* local1 has received the secret of local0; local2 has not yet.
C16_Witness ==
    /\ inputs.values = <<17, 29, 61>>
    /\ procs[<<PartyName(0), 1>>].secrets[1] # NoHandle
    /\ procs[<<PartyName(1), 1>>].secrets[1] # NoHandle
    /\ procs[<<PartyName(1), 1>>].secrets[1].shares[2] # 0
    /\ procs[<<PartyName(1), 1>>].secrets[1].shares[2]
            # procs[<<PartyName(0), 1>>].secrets[1].shares[1]
    /\ procs[<<PartyName(2), 1>>].secrets[1] = NoHandle
    /\ Cardinality(SecretInFlight(PartyName(0), PartyName(2))) = 1

\* The exchange messages in flight.
ExchangeInFlight ==
    {m \in pool : \E t \in DOMAIN procs :
                    m.msg_id = ExchangeId(scheme, procs[t].secret_result.name)}

\* C17: when every party calls exchange() with the default other_parties on
\* its handle of the result, every broadcast message carries the sender's
\* local share, and a party whose exchange has completed holds at slot j the
\* local share that party j broadcast, for every party j; parties that have
\* completed hold identical share arrays and reconstruct the same value.
C17_ExchangeFillsSlots ==
    /\ \A m \in ExchangeInFlight :
          m.message = get_local_share(scheme, m.sender,
                                      procs[<<m.sender, 1>>].secret_result.shares)
    /\ \A t \in DOMAIN procs :
          procs[t].pc = "done" =>
            /\ \A j \in PoolNames(scheme.n) :
                  /\ Calculated(<<j, 1>>)
                  /\ get_share(scheme, t[1], procs[t].secret_result.shares, j)
                        = get_local_share(scheme, j,
                                          procs[<<j, 1>>].secret_result.shares)
            /\ \A u \in DOMAIN procs :
                  procs[u].pc = "done" =>
                    /\ procs[u].secret_result = procs[t].secret_result
                    /\ procs[u].revealed = procs[t].revealed

\* All three exchanges of x + y have completed on three different shares.
C17_Witness ==
    /\ inputs.values = <<17, 29, 61>>
    /\ inputs.f = 1
    /\ \A t \in DOMAIN procs :
          /\ procs[t].pc = "done"
          /\ procs[t].revealed = Returned(46)
          /\ procs[t].secret_result.shares
                = procs[<<PartyName(0), 1>>].secret_result.shares
    /\ Cardinality({procs[<<PartyName(0), 1>>].secret_result.shares[k] :
                        k \in 1 .. scheme.n}) = scheme.n

\* The party has called exchange on a handle whose local slot was never set.
ExchangedUnset(t) ==
    /\ procs[t].pc \notin {"make", "exchange"}
    /\ IsSecureNumber(procs[t].secret_result)
    /\ procs[t].secret_result # NoHandle
    /\ procs[t].slot # mapping(scheme.n, t[1])[t[1]]

\* C18 (as claimed): exchange on a handle whose local slot is unset raises
\* before anything is broadcast.
C18_ExchangeRefusesUnset ==
    \A t \in DOMAIN procs :
        ExchangedUnset(t) =>
            /\ procs[t].pc = "raised"
            /\ \A m \in pool : m.sender # t[1]

(***************************************************************************)
(* Properties of the synchronous operators.                                *)
(***************************************************************************)
\* The names of the results of LINEAR_FUNCTIONS on the three secrets.
ExpectedNames ==
    << "secret_alice+secret_bob",
       "secret_alice+7",
       "secret_alice+7",
       "(secret_bob)*-1",
       "secret_bob+(secret_charlie)*-1",
       "secret_bob+-7",
       "(secret_charlie)*-1+7",
       "(secret_charlie)*7",
       "(secret_charlie)*7",
       "(secret_alice)*-1+(secret_bob)*2+(secret_charlie+1)*-1",
       "(secret_charlie+-1)*3+(secret_bob)*-1+2" >>

\* Coroutine t applies the linear function in this step.
Calculates(t) == procs[t].pc = "calculate" /\ procs'[t].pc = "exchange"

\* C19: a step that applies +, -, unary minus and multiplication by a
\* constant to handles sends and receives nothing, leaves the operand
\* handles and every other coroutine as they were, and yields a new handle
\* named after the operations, with the placeholder of empty_shares in
\* every slot but the local party's.
C19_SyncOperatorsLocal ==
    [][\A t \in DOMAIN procs :
         Calculates(t) =>
            /\ pool' = pool
            /\ procs'[t].secrets = procs[t].secrets
            /\ \A u \in DOMAIN procs \ {t} : procs'[u] = procs[u]
            /\ procs'[t].secret_result.name = ExpectedNames[inputs.f]
            /\ \A i \in 1 .. 3 :
                  procs'[t].secret_result.name # procs[t].secrets[i].name
            /\ \A k \in 1 .. scheme.n :
                  k # SlotOf(t[1]) =>
                    procs'[t].secret_result.shares[k] = empty_shares(scheme)[k]]_vars

\* local1 has computed -x + 2*y - (z + 1) on its shares; nothing is in flight.
C19_Witness ==
    /\ inputs.f = 10
    /\ inputs.values = <<17, 29, 61>>
    /\ pool = {}
    /\ procs[<<PartyName(1), 1>>].pc = "exchange"
    /\ procs[<<PartyName(1), 1>>].secret_result.name = ExpectedNames[10]
    /\ procs[<<PartyName(1), 1>>].secret_result.shares[2] # 0
    /\ procs[<<PartyName(1), 1>>].secret_result.shares[1] = 0
    /\ procs[<<PartyName(1), 1>>].secrets[1].shares[2] # 0

(***************************************************************************)
(* Properties of additive reconstruction.                                  *)
(***************************************************************************)
RECURSIVE SumOfSlots(_)
SumOfSlots(k) == IF k = 0 THEN 0 ELSE shares[k] + SumOfSlots(k - 1)

\* C20: a reconstruction of additive shares with other_parties given, the
\* empty set included, raises the ValueError and returns nothing; with
\* other_parties None it returns the sum of all n slots modulo the modulus
\* (decoded when apply_encoding is set).
C20_AdditiveAllOrNothing ==
    (scheme.kind = "additive" /\ outcome.done)
        => IF outcome.other_parties # None
           THEN /\ outcome.result.kind = "error"
                /\ outcome.result.err = "ValueError: This is not a threshold scheme"
           ELSE LET total == SumOfSlots(scheme.n) % scheme.modulus
                IN outcome.result =
                     Returned(IF outcome.apply_encoding
                              THEN decode(scheme, total) ELSE total)

\* The shares 2, 4, 3 of the secret 4 modulo 5, with the empty set named.
C20_Witness ==
    /\ scheme.kind = "additive" /\ outcome.done
    /\ scheme.n = 3 /\ scheme.modulus = 5
    /\ shares = <<2, 4, 3>>
    /\ outcome.other_parties = Named({})
    /\ outcome.result.kind = "error"

(***************************************************************************)
(* Properties of validate_identifiers.                                     *)
(***************************************************************************)
\* The peers of party i whose configured list differs from that of i.
DifferingPeers(i) ==
    {k \in (0 .. NrParties - 1) \ {i} :
        configured_party_names(inputs.views[k])
            # configured_party_names(inputs.views[i])}

\* C21: a party that has finished validate_identifiers has sent its sorted
\* list to every peer and taken one list of every peer; it finished without
\* error exactly when no peer's list differs from its own, and otherwise
\* the error names, by the name the party has for it, a peer whose list
\* differs.
C21_ValidateIdentifiers ==
    \A t \in DOMAIN procs :
        LET i == NameRank(t[1])
        IN /\ procs[t].pc \in {"done", "raised"}
                => /\ \A m \in pool : ~(m.receiver = t[1] /\ m.msg_id = ValidateId)
                   /\ \A k \in (0 .. NrParties - 1) \ {i} :
                        procs[<<PartyName(k), 1>>].pc # "validate"
           /\ procs[t].pc = "done" => DifferingPeers(i) = {}
           /\ procs[t].pc = "raised"
                => /\ \E k \in DifferingPeers(i) :
                        /\ procs[t].blamed = inputs.views[i][k]
                        /\ procs[t].revealed =
                             Raised(MismatchError(
                                configured_party_names(inputs.views[i]),
                                inputs.views[i][k],
                                configured_party_names(inputs.views[k])))

\* local0 and local1 agree, local2 calls local1 by its second name: local0
\* blames local2 while the lists of local0 and local1 passed each other.
C21_Witness ==
    /\ inputs.views[0] = inputs.views[1]
    /\ inputs.views[0][1] = PartyName(1)
    /\ inputs.views[2][1] = AliasName(1)
    /\ procs[<<PartyName(0), 1>>].pc = "raised"
    /\ procs[<<PartyName(0), 1>>].blamed = PartyName(2)
    /\ procs[<<PartyName(2), 1>>].pc = "raised"

(***************************************************************************)
(* Properties of the share slots of handles.                               *)
(***************************************************************************)
\* The handles that coroutine t holds.
HandlesOf(t) ==
    ({procs[t].secrets[i] : i \in 1 .. 3}
        \cup {procs[t].secret_result, procs[t].resharing,
              procs[t].shared_value}) \ {NoHandle}

\* Coroutine t completes its exchange in this step.
CompletesExchange(t) == procs[t].pc = "recv_all" /\ procs'[t].pc = "done"

\* C22: every handle a party holds (made by share, receive, from_share or
\* mul, and filled by exchange) has exactly n slots; the exchange keeps the
\* local slot and stores at slot i the share of a message it took from the
\* party at sorted index i, and a completed handle holds at slot i the
\* local share of that party.
C22_HandleShape ==
    /\ [](\A t \in DOMAIN procs :
            /\ \A h \in HandlesOf(t) : Len(h.shares) = scheme.n
            /\ procs[t].pc = "done" =>
                 \A j \in PoolNames(scheme.n) :
                    procs[t].secret_result.shares[SlotOf(j)]
                        = procs[<<j, 1>>].secret_result.shares[SlotOf(j)])
    /\ [][\A t \in DOMAIN procs :
            CompletesExchange(t) =>
               \A k \in 1 .. scheme.n :
                  IF k = SlotOf(t[1])
                  THEN procs'[t].secret_result.shares[k]
                            = procs[t].secret_result.shares[k]
                  ELSE \E m \in pool \ pool' :
                          /\ m.sender = all_party_names(scheme.n, t[1])[k]
                          /\ m.receiver = t[1]
                          /\ m.message = procs'[t].secret_result.shares[k]]_vars

\* Every party has revealed the product x*y of 17 and 29 modulo 1679 and
\* local2 holds three slots, the middle one being the share of local1.
C22_Witness ==
    /\ inputs.chains[1] = <<1, 2>>
    /\ \A t \in DOMAIN procs : procs[t].pc = "done"
    /\ Len(procs[<<PartyName(2), 1>>].secret_result.shares) = 3
    /\ procs[<<PartyName(2), 1>>].secret_result.shares[2]
            = procs[<<PartyName(1), 1>>].secret_result.shares[2]
    /\ procs[<<PartyName(2), 1>>].secret_result.shares[2] # 0
    /\ procs[<<PartyName(2), 1>>].revealed = Returned(493)

(***************************************************************************)
(* Properties of a reveal among a subset of the parties.  A step of a      *)
(* coroutine moves it forward in share/receive, exchange, recv_all, done,  *)
(* so a run in which a step stays possible until every reconstructor is    *)
(* done ends with every reconstructor done.                                *)
(***************************************************************************)
\* Coroutine t can take its next step: it is not waiting, or what it waits
\* for is in flight.
CanStep(t) ==
    \/ procs[t].pc \in {"share_and_send", "send", "exchange"}
    \/ /\ procs[t].pc = "receive"
       /\ recv(pool, PartyName(0), t[1], SendRecvId(scheme, SecretNames[1])) # {}
    \/ /\ procs[t].pc = "recv_all"
       /\ recv_all(pool,
                   ExchangeSenders(scheme, t[1], inputs.reconstructors \ {t[1]}),
                   t[1], ExchangeId(scheme, procs[t].secret_result.name)) # {}

\* No reconstructor has failed, those that are done have the secret, and
\* while one of them is not done some coroutine can take a step.
RevealProceeds ==
    /\ \A p \in inputs.reconstructors :
          /\ procs[<<p, 1>>].pc # "raised"
          /\ procs[<<p, 1>>].pc = "done"
                => procs[<<p, 1>>].revealed = Returned(value_alice)
    /\ (\E p \in inputs.reconstructors : procs[<<p, 1>>].pc # "done")
          => \E t \in DOMAIN procs : CanStep(t)

\* C23: when the parties of a set R of at least threshold members each call
\* exchange_and_reconstruct with the other members of R as other_parties,
\* every member of R completes with the secret although the parties outside
\* R never call exchange: no member fails, and no member is left waiting
\* for a share that no party will send.
C23_SubsetReveal == RevealProceeds

\* The same for the sets R of at least two members.
SubsetRevealOfTwo ==
    Cardinality(inputs.reconstructors) >= 2 => RevealProceeds

(***************************************************************************)
(* Properties of the choice between the two multiplication paths.          *)
(***************************************************************************)
\* Both operands of the call are handles.
BothHandles == inputs.call.left # 0 /\ inputs.call.right # 0

\* The call is one the code refuses.
Refused ==
    \/ inputs.call.via = "operator" /\ BothHandles
    \/ inputs.call.via = "mul" /\ ~BothHandles

\* Coroutine t holds what it held before the call and has sent nothing.
Untouched(t) ==
    /\ procs[t].secrets = HeldSecrets(scheme, t[1], inputs.values,
                                      inputs.coefficients)
    /\ procs[t].secret_result = NoHandle
    /\ procs[t].resharing = NoHandle
    /\ procs[t].shared_value = NoHandle
    /\ \A m \in pool : m.sender # t[1]

\* C25: x * y on two handles raises the TypeError that points to
\* scheme.mul, and scheme.mul with an int in either position (or both)
\* raises the TypeError that points to x * y; a refused call sends nothing
\* and makes or changes no handle, and no other call is refused this way.
C25_MulDispatch ==
    \A t \in DOMAIN procs :
        /\ Refused =>
              /\ procs[t].pc \in {"call", "raised"}
              /\ Untouched(t)
              /\ procs[t].pc = "raised" =>
                    procs[t].revealed =
                        IF inputs.call.via = "operator"
                        THEN Raised(MulSyncError) ELSE Raised(MulTypeError)
        /\ ~Refused => procs[t].pc # "raised"

\* mul(x, 7) has been refused at all three parties, with nothing in flight.
C25_Witness ==
    /\ inputs.call = [via |-> "mul", left |-> 1, right |-> 0]
    /\ \A t \in DOMAIN procs :
          procs[t].pc = "raised" /\ procs[t].revealed = Raised(MulTypeError)
    /\ pool = {}

\* x * y has been refused at local1 while local0 has still to evaluate it.
C25_WitnessOperator ==
    /\ inputs.call = [via |-> "operator", left |-> 1, right |-> 2]
    /\ procs[<<PartyName(1), 1>>].revealed = Raised(MulSyncError)
    /\ procs[<<PartyName(0), 1>>].pc = "call"

(***************************************************************************)
(* Properties of exchange_and_reconstruct under the additive scheme.       *)
(***************************************************************************)
\* The TypeErrors that the code raises.
TypeErrors == {MulSyncError, MulTypeError}

\* C26: exchange_and_reconstruct of an additive handle with other_parties
\* supplied does not return a value, and the error it raises is a TypeError.
C26_SubsetIsTypeError ==
    \A t \in DOMAIN procs :
        /\ procs[t].pc # "done"
        /\ procs[t].pc = "raised" => procs[t].revealed.err \in TypeErrors

\* The error that local0 gets with other_parties = {local1}.
RaisedValueError ==
    /\ inputs.reconstructors = {PartyName(0), PartyName(1)}
    /\ procs[<<PartyName(0), 1>>].pc = "raised"
    /\ procs[<<PartyName(0), 1>>].revealed
            = Raised("ValueError: This is not a threshold scheme")
    /\ \E m \in pool : m.sender = PartyName(0) /\ m.receiver = PartyName(2)
                         /\ m.msg_id = ExchangeId(scheme, SecretNames[1])


(***************************************************************************)
(* Properties of from_share with an owner.                                 *)
(***************************************************************************)
\* The index of the owner that the call names; -1 when it names none.
NamedOwnerIndex ==
    LET owner == inputs.maker.owner
    IN IF inputs.maker.by # "from_share" \/ owner = OwnerNone THEN -1
       ELSE IF owner.kind = "index" THEN owner.index
       ELSE NameRank(owner.name)

\* C27: a handle just made by from_share with an owner given by name or by
\* an index in [0, n) holds the share at the slot of that owner and the
\* placeholder in every other slot, index 0 included.
C27_FromShareOwner ==
    \A t \in DOMAIN procs :
        (/\ procs[t].pc = "exchange"
         /\ NamedOwnerIndex \in 0 .. scheme.n - 1)
            => procs[t].secret_result.shares
                  = [k \in 1 .. scheme.n |->
                        IF k = NamedOwnerIndex + 1 THEN inputs.value ELSE 0]

\* from_share("answer", 42, scheme, owner=0) at local1: the share is in the
\* slot of local1.
OwnerZeroAtLocalSlot ==
    /\ inputs.maker = [by |-> "from_share", owner |-> OwnerIndex(0)]
    /\ inputs.value = 42
    /\ procs[<<PartyName(1), 1>>].pc = "exchange"
    /\ procs[<<PartyName(1), 1>>].secret_result.shares = <<0, 42, 0>>

\* The same with the owners that are not index 0.
FromShareOwnerNotZero ==
    inputs.maker.owner # OwnerIndex(0) => C27_FromShareOwner


(***************************************************************************)
(* Properties of the addition of a public constant to additive shares.     *)
(***************************************************************************)
\* The functions that add a constant to one secret: x + 7 and y - 7, as
\* <<index of the secret, constant>>; <<0, 0>> for the other functions.
ConstantAddition ==
    IF inputs.f = 2 THEN <<1, 7>>
    ELSE IF inputs.f = 6 THEN <<2, -7>>
    ELSE <<0, 0>>

\* The local share of party p in its handle h.
LocalShareOf(p, h) == h.shares[SlotOf(p)]

\* C28: when the parties apply x + c to their additive handles of x, the
\* party at sorted index 0 adds c to its local share and every other party
\* keeps its local share, whoever shared x; once all have done so the
\* local shares of the results sum to x + c modulo the modulus.
C28_ConstantAddedOnce ==
    (scheme.kind = "additive" /\ ConstantAddition[1] # 0) =>
        LET i == ConstantAddition[1]
            c == ConstantAddition[2]
            done == {t \in DOMAIN procs : Calculated(t)}
        IN /\ \A t \in done :
                LocalShareOf(t[1], procs[t].secret_result)
                    = IF t[1] = PartyName(0)
                      THEN (LocalShareOf(t[1], procs[t].secrets[i]) + c)
                                % scheme.modulus
                      ELSE LocalShareOf(t[1], procs[t].secrets[i])
           /\ done = DOMAIN procs =>
                (LocalShareOf(PartyName(0), procs[<<PartyName(0), 1>>].secret_result)
                 + LocalShareOf(PartyName(1), procs[<<PartyName(1), 1>>].secret_result)
                 + LocalShareOf(PartyName(2), procs[<<PartyName(2), 1>>].secret_result))
                    % scheme.modulus
                 = (inputs.values[i] + c) % scheme.modulus

\* y - 7 on the secret 29 of local1: all three parties have applied it, the
\* share of local0 has changed and that of local1 has not.
C28_Witness ==
    /\ scheme.kind = "additive" /\ inputs.f = 6
    /\ inputs.values = <<17, 29, 61>>
    /\ \A t \in DOMAIN procs : Calculated(t)
    /\ LocalShareOf(PartyName(0), procs[<<PartyName(0), 1>>].secret_result)
          # LocalShareOf(PartyName(0), procs[<<PartyName(0), 1>>].secrets[2])
    /\ LocalShareOf(PartyName(1), procs[<<PartyName(1), 1>>].secret_result)
          = LocalShareOf(PartyName(1), procs[<<PartyName(1), 1>>].secrets[2])
    /\ LocalShareOf(PartyName(1), procs[<<PartyName(1), 1>>].secret_result) # 0


(***************************************************************************)
(* Properties of the waiting in a multiplication.  A step of a coroutine   *)
(* moves it forward along its chain of mul calls, so a run in which a      *)
(* waiting party always has a step of its own or of a peer at the end of   *)
(* its chain of waits ends with every mul returned.                        *)
(***************************************************************************)
\* The party whose fragment coroutine t awaits, and the fragments of it in
\* flight.
AwaitedParty(t) == Peers(scheme, t[1])[procs[t].received + 1]

AwaitedFragments(t) ==
    recv(pool, AwaitedParty(t), t[1],
         SendRecvId(scheme, ResharingName(AwaitedParty(t), procs[t].resharing_id)))

\* Coroutine t can take a step of its mul.
CanMulStep(t) ==
    \/ procs[t].pc \in {"mul", "mul_send"}
    \/ procs[t].pc = "mul_receive" /\ AwaitedFragments(t) # {}

\* Coroutine t is not blocked for good: it can take a step, or the peer it
\* waits for is not blocked, along a chain of at most depth waits.
RECURSIVE NotBlocked(_, _)
NotBlocked(t, depth) ==
    \/ CanMulStep(t)
    \/ /\ depth > 0
       /\ procs[t].pc = "mul_receive"
       /\ NotBlocked(<<AwaitedParty(t), 1>>, depth - 1)

\* Coroutine t enters the receive loop of _mul_encoded in this step.
StartsWaiting(t) == procs[t].pc # "mul_receive" /\ procs'[t].pc = "mul_receive"

\* Coroutine t does the pool.send of a resharing to peer q in this step.
SendsFragment(t, q) ==
    /\ procs'[t].pc = "mul_send"
    /\ q \in procs'[t].sent
    /\ procs[t].pc = "mul_send" => q \notin procs[t].sent

\* C29: with 2t-1 <= n and the same chain of mul calls at every party, a
\* party enters the receive loop from the loop of send only, after the
\* n-1 sends of it, each of which has put the fragment of one more peer in
\* flight, and a party in the receive loop finds the
\* fragment it awaits in flight or awaits a peer that is not blocked: the
\* chain of waits from it ends, without coming back to it, in a party that
\* has still to send or whose awaited fragment is in flight; while a mul is
\* unfinished some party can take a step of it.
C29_MulNoCircularWait ==
    /\ [](MulPossible =>
            /\ \A t \in DOMAIN procs :
                  procs[t].pc = "mul_receive" => NotBlocked(t, scheme.n - 1)
            /\ (\E t \in DOMAIN procs :
                    procs[t].pc \in {"mul", "mul_send", "mul_receive"})
                  => \E t \in DOMAIN procs : CanMulStep(t))
    /\ [][\A t \in DOMAIN procs :
            /\ StartsWaiting(t) =>
                    /\ procs[t].pc = "mul_send"
                    /\ procs[t].sent = PoolClients(scheme.n, t[1])
            /\ \A q \in PoolClients(scheme.n, t[1]) :
                    SendsFragment(t, q) =>
                        \E m \in pool' \ pool :
                            /\ m.sender = t[1]
                            /\ m.receiver = q
                            /\ m.msg_id = SendRecvId(scheme,
                                  ResharingName(t[1], procs'[t].resharing_id))]_vars

\* local2 waits in x*y for the fragment of local0, which is in its loop of
\* send and has sent to local1 only.
C29_Witness ==
    /\ MulPossible
    /\ inputs.chains[1] = <<1, 2>>
    /\ procs[<<PartyName(2), 1>>].pc = "mul_receive"
    /\ AwaitedParty(<<PartyName(2), 1>>) = PartyName(0)
    /\ AwaitedFragments(<<PartyName(2), 1>>) = {}
    /\ procs[<<PartyName(0), 1>>].pc = "mul_send"
    /\ procs[<<PartyName(0), 1>>].sent = {PartyName(1)}
    /\ \E m \in pool : m.sender = PartyName(0) /\ m.receiver = PartyName(1)


(***************************************************************************)
(* Properties of repeated reconstruction.                                  *)
(***************************************************************************)
\* The last two calls of reconstruct had the same arguments.
SameArguments ==
    /\ inputs.previous.done
    /\ outcome.apply_encoding = inputs.previous.apply_encoding
    /\ outcome.other_parties = inputs.previous.other_parties

\* C30: a call of reconstruct leaves the share slots of the handle and the
\* messages in flight as they were, and a call with the arguments of the
\* call before it gives the result of that call, a raised error included:
\* also when the call before it computed the weights or the mapping and this
\* call reads what that call left in the instance.
C30_ReconstructReadOnly ==
    /\ [](SameArguments => outcome.result = inputs.previous.result)
    /\ [][inputs'.calls # inputs.calls => (shares' = shares /\ pool' = pool)]_vars

\* Shamir, 3 parties, threshold 2, modulus 5, the shares 2, 0, 3 of the
\* secret 4: the first call over the full set computed the weights, the
\* second read them from the instance, and both returned 4.
C30_Witness ==
    /\ scheme.kind = "shamir" /\ scheme.n = 3 /\ scheme.modulus = 5
    /\ scheme.threshold = 2
    /\ "weights" \in DOMAIN scheme
    /\ shares = <<2, 0, 3>>
    /\ inputs.calls = 2
    /\ SameArguments
    /\ outcome.other_parties = None /\ ~outcome.apply_encoding
    /\ outcome.result = Returned(4)
    /\ inputs.previous.result = Returned(4)


(***************************************************************************)
(* Properties of the range of the stored shares.                           *)
(***************************************************************************)
\* Every slot of handle h holds a value of [0, modulus).
SharesInRange(h) ==
    \A k \in 1 .. Len(h.shares) : h.shares[k] \in 0 .. scheme.modulus - 1

\* C31: every share value stored in a handle a party holds lies in
\* [0, modulus), after share, receive, the synchronous operators, mul and
\* exchange.
C31_ShareRange ==
    \A t \in DOMAIN procs : \A h \in HandlesOf(t) : SharesInRange(h)

\* The handles made by share, receive and the synchronous operators, and
\* the resharing of a mul, keep their shares in [0, modulus).
SharesInRangeBeforeMul ==
    \A t \in DOMAIN procs :
        \A h \in HandlesOf(t) \ {procs[t].secret_result} : SharesInRange(h)

\* A product handle returned by mul holds a share of modulus or more.
ProductShareOutOfRange ==
    \E t \in DOMAIN procs :
        /\ procs[t].position > 2
        /\ procs[t].secret_result # NoHandle
        /\ ~SharesInRange(procs[t].secret_result)


(***************************************************************************)
(* Properties of share_and_send_each.                                      *)
(***************************************************************************)
\* Coroutine t has the handles that share_and_send_each returned.
HasEachHandles(t) == procs[t].pc \in {"sum", "exchange", "recv_all", "done"}

\* The handle that party p holds of its own secret, with every slot filled:
\* secret_local inside share_and_send_each, its entry of the tuple after.
OwnSharing(p) ==
    IF procs[<<p, 1>>].shared_value # NoHandle
    THEN procs[<<p, 1>>].shared_value
    ELSE procs[<<p, 1>>].secrets[SlotOf(p)]

\* The sum of the three secrets as the reveal returns it.
SumOfSecrets ==
    decode(scheme, (inputs.values[1] + inputs.values[2] + inputs.values[3])
                        % scheme.modulus)

\* C32: once share_and_send_each has returned, the handle a party holds of
\* the secret of a peer P has at the slot of the local party the share P
\* computed for that party, and the reveal of the local sum of the handles
\* returns the sum of the secrets of all parties.
C32_ShareEachUsable ==
    \A t \in DOMAIN procs :
        /\ HasEachHandles(t) =>
             \A p \in PoolClients(scheme.n, t[1]) :
                procs[t].secrets[SlotOf(p)].shares[SlotOf(t[1])]
                    = OwnSharing(p).shares[SlotOf(t[1])]
        /\ procs[t].pc = "done" => procs[t].revealed = Returned(SumOfSecrets)

\* share_and_send_each stores the received share at the slot of its sender:
\* the handle of the secret of a peer has that share at the slot of the
\* peer and the placeholder 0 at every other slot.
ShareEachStoresAtSenderSlot ==
    \A t \in DOMAIN procs :
        HasEachHandles(t) =>
            \A p \in PoolClients(scheme.n, t[1]) :
                procs[t].secrets[SlotOf(p)].shares
                    = [k \in 1 .. scheme.n |->
                        IF k = SlotOf(p)
                        THEN OwnSharing(p).shares[SlotOf(t[1])]
                        ELSE 0]

\* A reveal of the sum has returned a value that is not the sum.
ShareEachWrongSum ==
    \E t \in DOMAIN procs :
        /\ procs[t].pc = "done"
        /\ procs[t].revealed.kind = "value"
        /\ procs[t].revealed # Returned(SumOfSecrets)


(***************************************************************************)
(* Properties of exchange_and_reconstruct below the threshold.             *)
(***************************************************************************)
\* The shares of the exchange of the secret that are in flight from p to q.
ExchangedInFlight(p, q) ==
    {m \in pool : /\ m.sender = p /\ m.receiver = q
                  /\ m.msg_id = ExchangeId(scheme, SecretNames[1])}

\* The parties that party p names in its call.
NamedBy(p) == inputs.reconstructors \ {p}

\* Coroutine t ends its exchange_and_reconstruct in this step.
EndsReveal(t) == procs[t].pc # procs'[t].pc /\ procs'[t].pc \in {"raised", "done"}

\* C33: a party that names fewer parties than the threshold needs gets the
\* threshold error, and never a value; it gets the error only after its
\* exchange: in the step that raises, it has broadcast its share and takes
\* a share of every party it named.  A named party that has returned sends
\* no share, and the call that waits for it takes no step.
C33_ExchangeBeforeThresholdCheck ==
    /\ [](\A t \in DOMAIN procs :
            /\ procs[t].pc # "done"
            /\ procs[t].pc = "raised" =>
                 procs[t].revealed
                    = Raised(ThresholdError(scheme.threshold,
                                            Cardinality(inputs.reconstructors)))
            /\ \A q \in NamedBy(t[1]) :
                  procs[<<q, 1>>].pc = "returned" => ExchangedInFlight(q, t[1]) = {})
    /\ [][\A t \in DOMAIN procs :
            /\ EndsReveal(t) =>
                 /\ procs[t].pc = "recv_all"
                 /\ NamedBy(t[1]) # {}
                 /\ \A q \in NamedBy(t[1]) :
                       \E m \in ExchangedInFlight(q, t[1]) : m \notin pool'
            /\ (procs[t].pc = "recv_all" /\
                    \E q \in NamedBy(t[1]) : ExchangedInFlight(q, t[1]) = {})
                 => procs'[t] = procs[t]
            /\ (procs[t].pc = "exchange" /\ procs'[t].pc = "recv_all") =>
                 \A q \in PoolClients(scheme.n, t[1]) :
                    \E m \in pool' \ pool : m.sender = t[1] /\ m.receiver = q]_vars

\* Threshold 3 and the reconstructors local0 and local1: local0 has the
\* threshold error after it took the share of local1, and its own share is
\* still in flight to local2, which it did not name.
C33_Witness ==
    /\ scheme.threshold = 3
    /\ inputs.reconstructors = {PartyName(0), PartyName(1)}
    /\ procs[<<PartyName(0), 1>>].pc = "raised"
    /\ procs[<<PartyName(0), 1>>].revealed = Raised(ThresholdError(3, 2))
    /\ procs[<<PartyName(0), 1>>].secret_result.shares[SlotOf(PartyName(1))]
            = procs[<<PartyName(1), 1>>].secret_result.shares[SlotOf(PartyName(1))]
    /\ ExchangedInFlight(PartyName(0), PartyName(2)) # {}

\* local0 named local1, which returned without a call of its own: local0
\* waits, no share is in flight to it and no coroutine can take a step.
BlockedBelowThreshold ==
    /\ scheme.threshold = 3
    /\ inputs.reconstructors = {PartyName(0), PartyName(1)}
    /\ inputs.callers = {PartyName(0)}
    /\ procs[<<PartyName(0), 1>>].pc = "recv_all"
    /\ procs[<<PartyName(1), 1>>].pc = "returned"
    /\ procs[<<PartyName(2), 1>>].pc = "returned"
    /\ \A t \in DOMAIN procs : ~CanStep(t)


(***************************************************************************)
(* Properties of the recipients of an exchange among a subset.             *)
(***************************************************************************)
\* C34: the share that a party sends in exchange(other_parties=S), with S
\* not empty, goes to the parties of S only: none is in flight to a party
\* outside S.
C34_SubsetExchangeConfined ==
    \A p \in PoolNames(scheme.n) : \A q \in PoolClients(scheme.n, p) :
        (NamedBy(p) # {} /\ q \notin NamedBy(p)) => ExchangedInFlight(p, q) = {}

\* Threshold 2 and the reconstructors local0 and local1: the shares of both
\* are in flight to local2, which holds a share of its own.
OutsiderGetsShares ==
    /\ scheme.threshold = 2
    /\ inputs.reconstructors = {PartyName(0), PartyName(1)}
    /\ ExchangedInFlight(PartyName(0), PartyName(2)) # {}
    /\ ExchangedInFlight(PartyName(1), PartyName(2)) # {}
    /\ procs[<<PartyName(2), 1>>].pc = "returned"


(***************************************************************************)
(* Properties of the names of derived handles.                             *)
(***************************************************************************)
\* C35: two handles that a party derived from the named inputs through +
\* and mul carry the same name only if they stand for the same value.
C35_NamesIdentifyValues ==
    \A j, k \in DOMAIN procs :
        procs[j].secret_result.name = procs[k].secret_result.name
            => procs[j].secret_result.denotes = procs[k].secret_result.denotes

\* mul(x, x + x) and mul(x, x) + x, of the values 578 and 306, are both
\* named (x)*x+x, so their exchanges use one message id.
SameNameOtherValue ==
    /\ procs[1].secret_result = NamedValue("(x)*x+x", 578 % scheme.modulus, TRUE)
    /\ procs[2].secret_result = NamedValue("(x)*x+x", 306 % scheme.modulus, TRUE)
    /\ 578 % scheme.modulus # 306 % scheme.modulus
    /\ ExchangeId(scheme, procs[1].secret_result.name)
            = ExchangeId(scheme, procs[2].secret_result.name)


(***************************************************************************)
(* Properties of the default threshold.                                    *)
(***************************************************************************)
\* The scheme was constructed without a threshold argument.
DefaultConstructed == scheme # NotConstructed /\ inputs.threshold = {}

\* C36: a scheme constructed without a threshold has the threshold
\* 1 + floor(n / 2); with it 2t - 1 <= n holds exactly when n is odd, and
\* for an even n every call of _mul_encoded raises the error of the
\* threshold, while for an odd n none does.
C36_DefaultThresholdMul ==
    DefaultConstructed =>
        /\ scheme.threshold = 1 + (scheme.n \div 2)
        /\ MulPossible <=> scheme.n % 2 = 1
        /\ outcome.done =>
             (outcome.result = Raised(MulError(scheme)) <=> scheme.n % 2 = 0)

\* Four parties and no threshold argument: the threshold is 3 and the call
\* with a resharing id has raised.
C36_Witness ==
    /\ DefaultConstructed
    /\ scheme.n = 4 /\ scheme.threshold = 3
    /\ inputs.resharing_id # {}
    /\ outcome.done
    /\ outcome.result = Raised(MulError(scheme))

\* Five parties and no threshold argument: the call has passed its checks.
DefaultThresholdOddPasses ==
    /\ DefaultConstructed
    /\ scheme.n = 5 /\ scheme.threshold = 3
    /\ outcome.done
    /\ outcome.result = NoOutcome


(***************************************************************************)
(* Properties of reconstruct on a handle with unset slots.                 *)
(***************************************************************************)
\* What reconstruct makes of the local share alone: every other share
\* counts as 0.
FromLocalShareAlone(t) ==
    LET s == procs[t].secret_result.shares[SlotOf(t[1])]
    IN IF scheme.kind = "shamir"
       THEN decode(scheme, (weights(scheme)[SlotOf(t[1]) - 1] * s) % scheme.modulus)
       ELSE decode(scheme, s % scheme.modulus)

\* C37: the slots of a received or computed handle other than the local
\* slot hold 0, and reconstruct() called on it before any exchange raises
\* nothing: it returns the value that the local share gives with 0 for
\* every other share.
C37_UnsetSlotsUsed ==
    \A t \in DOMAIN procs :
        /\ procs[t].pc # "raised"
        /\ procs[t].pc \in {"exchange", "done"} =>
             \A h \in ReceivedHandles(t) \cup {procs[t].secret_result} :
                \A k \in (1 .. scheme.n) \ {SlotOf(t[1])} : h.shares[k] = 0
        /\ procs[t].pc = "done" =>
             procs[t].revealed = Returned(FromLocalShareAlone(t))

\* local1 called reconstruct on the handle of x + y, of 17 and 29: it got a
\* value, and not 46.
C37_Witness ==
    /\ inputs.values = <<17, 29, 61>>
    /\ inputs.f = 1
    /\ procs[<<PartyName(1), 1>>].pc = "done"
    /\ procs[<<PartyName(1), 1>>].secret_result.name = "secret_alice+secret_bob"
    /\ procs[<<PartyName(1), 1>>].revealed.kind = "value"
    /\ procs[<<PartyName(1), 1>>].revealed # Returned(46)

\* A received share of 0 gives the handle that empty_shares gives.
GenuineZeroShare ==
    \E t \in DOMAIN procs :
        /\ procs[t].pc = "done"
        /\ procs[t].secret_result \in ReceivedHandles(t)
        /\ procs[t].secret_result.shares = empty_shares(scheme)


=============================================================================
